---------------------------- MODULE Spec2Model ----------------------------
(***************************************************************************)
(* A model of pydanticrud: the DynamoDB backend (record codec, expression  *)
(* compiler, index planner, initialize, query/get/save/delete and          *)
(* batch_save), the SQLite backend (initialize, save/get/delete and its    *)
(* expression compiler), and the versioned model of app/models/base.py.    *)
(*                                                                         *)
(* The module holds several specifications over one set of variables;     *)
(* each specification drives one group of variables and leaves the other   *)
(* groups at their idle values:                                            *)
(*   SpecCodec  - DynamoSerializer._serialize_field / _deserialize_field   *)
(*   SpecCodecAny - the same two functions on values of any type           *)
(*   SpecQuery  - Backend.query of the DynamoDB backend, page after page   *)
(*   SpecStore  - save, get and delete of a hash-key-only record type      *)
(*   SpecVersioned - VersionedBaseModel.save with revision tokens          *)
(*   SpecUpdate - VersionedBaseModel.update_value, next to save            *)
(*   SpecSchema - initialize and exists of the DynamoDB and SQLite backends *)
(*   SpecBatch  - Backend.batch_save of the DynamoDB backend                *)
(*   SpecSql    - the SQLite backend's _expression_to_condition             *)
(*   SpecCompile - the DynamoDB backend's rule_to_boto_expression           *)
(*   SpecCompileLit - the same on comparisons with other literals           *)
(*   SpecPlanner - the DynamoDB backend's _get_best_index                   *)
(*   SpecSqliteWriters - two callers in Backend.save of the SQLite backend  *)
(*   SpecVersionedWriters - two callers in VersionedBaseModel.save          *)
(*   SpecIter - for-loops and indexing on an IterableResult                 *)
(***************************************************************************)
EXTENDS Integers, Sequences, FiniteSets, TLC

VARIABLES
    (* record codec: one field of one record going to the table and back *)
    cField,     \* field_name
    cValue,     \* the value held by the record
    cOrder,     \* iteration order of the set returned by _get_type_possibilities
    cSer,       \* result of _serialize_field (or NotRun)
    cDe,        \* result of _deserialize_field (or NotRun)
    (* DynamoDB backend, query *)
    qCfg,       \* the Config of the record type the Backend was built for
    qArgs,      \* arguments of the caller's query: query_expr, filter_expr, limit, order
    qRes,       \* what the last Backend.query call returned or raised
    qCall,      \* the table.query / table.scan call that query() issued, with its params
    qPages,     \* the records of the pages the caller has obtained so far
    (* a hash-key-only record type on one of the backends: save, get, delete *)
    backend,    \* the backend of the record type
    table,      \* the rows the backend's table holds
    saved,      \* per key, the caller's last save or delete of it
    ret,        \* the last operation and what it returned or raised
    (* VersionedBaseModel: records with a revision token *)
    vtable,     \* the items of the DynamoDB table
    objs,       \* the model instances the caller holds
    nextRev,    \* the number of UUIDs uuid4() has handed out, plus one
    vlog,       \* the last two save calls: arguments, stored item before, outcome
    (* initialize / exists *)
    sBackend,   \* the backend of the record type
    sDb,        \* the database: whether the table exists, its definition and records
    sRet,       \* the last call: the database before it and what it returned or raised
    (* batch_save *)
    bItems,     \* the list of records handed to batch_save
    bCalls,     \* the batch_write_item calls issued: each the list of its put requests
    bRet,       \* what batch_save returned or raised (or NotRun)
    (* SQLite backend, expression compiler *)
    sqlExpr,    \* the expression of the Rule handed to _rule_to_sqlite_expression
    sqlOut,     \* what it returned or raised (or NotRun)
    (* DynamoDB backend, expression compiler *)
    kExpr,      \* the expression of the Rule handed to rule_to_boto_expression
    kKeys,      \* the keys argument: the names compiled as Key
    kOut,       \* the (condition, keys used) pair returned, or the exception (or NotRun)
    (* DynamoDB backend, index planner *)
    pCfg,       \* the Config of the record type the Backend was built for
    pKeys,      \* keys_used
    pOut,       \* what _get_best_index returned or raised (or NotRun)
    (* concurrent save calls on one table *)
    wTable,     \* the rows or items of the table
    wProc,      \* per caller: where its save call stands, its arguments and its outcome
    wCount,     \* the number of save calls begun so far
    (* IterableResult *)
    iRecords,   \* self.records
    iIndex,     \* self._current_index
    iLoops,     \* the for-loops of the caller over the result: state, records yielded
    iGot        \* the last result[i] of the caller

codecVars == <<cField, cValue, cOrder, cSer, cDe>>
queryVars == <<qCfg, qArgs, qRes, qCall, qPages>>
storeVars == <<backend, table, saved, ret>>
versionedVars == <<vtable, objs, nextRev, vlog>>
schemaVars == <<sBackend, sDb, sRet>>
batchVars == <<bItems, bCalls, bRet>>
sqlVars == <<sqlExpr, sqlOut>>
compileVars == <<kExpr, kKeys, kOut>>
plannerVars == <<pCfg, pKeys, pOut>>
writerVars == <<wTable, wProc, wCount>>
iterVars == <<iRecords, iIndex, iLoops, iGot>>
vars == <<cField, cValue, cOrder, cSer, cDe, qCfg, qArgs, qRes, qCall, qPages,
          backend, table, saved, ret, vtable, objs, nextRev, vlog,
          sBackend, sDb, sRet, bItems, bCalls, bRet, sqlExpr, sqlOut,
          kExpr, kKeys, kOut, pCfg, pKeys, pOut, wTable, wProc, wCount,
          iRecords, iIndex, iLoops, iGot>>

(***************************************************************************)
(* Bounds of the model.                                                    *)
(***************************************************************************)
MaxInt == 1          \* integers of the records range over -MaxInt..MaxInt

(***************************************************************************)
(* Python values.  Every value is a record tagged with its Python type.    *)
(*   int      [t, n]      n the integer                                    *)
(*   float    [t, n]      the double nearest to n/10                       *)
(*   Decimal  [t, n]      exactly n/10                                     *)
(*   bool     [t, b]                                                       *)
(*   str      [t, s]      s the sequence of its characters                 *)
(*   datetime [t, wall, aware, off]  wall-clock seconds since 1970-01-01   *)
(*            00:00, whether tzinfo is set, and the UTC offset in seconds  *)
(*   dict     [t, items]  set of <<key, value>> pairs                      *)
(*   list     [t, l]      sequence of values                               *)
(***************************************************************************)
None == [t |-> "None"]
PyInt(i) == [t |-> "int", n |-> i]
PyFloat(tenths) == [t |-> "float", n |-> tenths]
PyDecimal(tenths) == [t |-> "Decimal", n |-> tenths]
PyBool(b) == [t |-> "bool", b |-> b]
PyStr(chars) == [t |-> "str", s |-> chars]
PyDatetime(wall, aware, off) == [t |-> "datetime", wall |-> wall, aware |-> aware, off |-> off]
PyDict(items) == [t |-> "dict", items |-> items]
PyList(l) == [t |-> "list", l |-> l]
Raise(exc) == [t |-> "raise", exc |-> exc]
NotRun == [t |-> "notrun"]

IsRaise(v) == v.t = "raise"
IsNumber(v) == v.t \in {"int", "float", "Decimal", "bool"}

\* The numeric value of a number, in tenths.
Tenths(v) ==
    CASE v.t = "int" -> 10 * v.n
      [] v.t = "bool" -> IF v.b THEN 10 ELSE 0
      [] OTHER -> v.n

\* A double holds n/10 exactly only when n/10 is a multiple of 1/2.
ExactFloat(v) == v.t = "float" => v.n % 5 = 0

\* The instant of an aware datetime, in seconds since the UTC epoch.
Instant(d) == d.wall - d.off

(* Python's ==.  Numbers compare by exact numeric value across int, float, *)
(* Decimal and bool; two aware datetimes compare by instant, two naive     *)
(* ones by wall clock, and an aware one never equals a naive one.          *)
PyEq(a, b) ==
    IF IsNumber(a) /\ IsNumber(b)
    THEN /\ Tenths(a) = Tenths(b)
         /\ (a.t = "float" /\ b.t = "float") \/ (ExactFloat(a) /\ ExactFloat(b))
    ELSE IF a.t = "datetime" /\ b.t = "datetime"
    THEN /\ a.aware = b.aware
         /\ IF a.aware THEN Instant(a) = Instant(b) ELSE a.wall = b.wall
    ELSE a = b

(***************************************************************************)
(* Text: str(), float(), datetime.isoformat(), json.dumps and json.loads,  *)
(* over strings held as sequences of characters.                           *)
(***************************************************************************)
DigitSeq == <<"0", "1", "2", "3", "4", "5", "6", "7", "8", "9">>
DigitSet == {DigitSeq[i] : i \in 1..10}
DigitChar(d) == DigitSeq[d + 1]
DigitVal(c) == (CHOOSE i \in 1..10 : DigitSeq[i] = c) - 1
Abs(i) == IF i < 0 THEN -i ELSE i

RECURSIVE NatText(_)
NatText(n) == IF n < 10 THEN <<DigitChar(n)>> ELSE NatText(n \div 10) \o <<DigitChar(n % 10)>>

IntText(i) == IF i < 0 THEN <<"-">> \o NatText(-i) ELSE NatText(i)

\* repr of a float or str of a Decimal holding tenths/10: "-1.5", "0.0"
FractionText(tenths) ==
    (IF tenths < 0 THEN <<"-">> ELSE <<>>)
        \o NatText(Abs(tenths) \div 10) \o <<".">> \o <<DigitChar(Abs(tenths) % 10)>>

IsDigits(s) == Len(s) > 0 /\ \A i \in 1..Len(s) : s[i] \in DigitSet

RECURSIVE NatVal(_)
NatVal(s) == IF Len(s) = 0 THEN 0 ELSE 10 * NatVal(SubSeq(s, 1, Len(s) - 1)) + DigitVal(s[Len(s)])

\* An optionally signed run of digits, or not an integer numeral.
IsIntText(s) == IsDigits(IF Len(s) > 0 /\ s[1] = "-" THEN Tail(s) ELSE s)
IntVal(s) == IF s[1] = "-" THEN -NatVal(Tail(s)) ELSE NatVal(s)

(* float(s) of a str: the numerals "d+" and "d+.d" with an optional sign   *)
(* convert, anything else is a ValueError.                                 *)
ParseFloat(s) ==
    LET neg == Len(s) > 0 /\ s[1] = "-"
        body == IF neg THEN Tail(s) ELSE s
        dots == {i \in 1..Len(body) : body[i] = "."}
        sign == IF neg THEN -1 ELSE 1
    IN  IF dots = {}
        THEN IF IsDigits(body) THEN PyFloat(sign * 10 * NatVal(body)) ELSE Raise("ValueError")
        ELSE LET p == CHOOSE i \in dots : TRUE
                 ip == SubSeq(body, 1, p - 1)
                 fp == SubSeq(body, p + 1, Len(body))
             IN  IF Cardinality(dots) = 1 /\ IsDigits(ip) /\ Len(fp) = 1 /\ IsDigits(fp)
                 THEN PyFloat(sign * (10 * NatVal(ip) + NatVal(fp)))
                 ELSE Raise("ValueError")

\* datetime.isoformat(): "T<wall>" for a naive value, "T<wall>+<off>" for an aware one
IsoFormat(d) ==
    <<"T">> \o IntText(d.wall) \o (IF d.aware THEN <<"+">> \o IntText(d.off) ELSE <<>>)

RECURSIVE JoinTexts(_, _)
JoinTexts(texts, sep) ==
    IF Len(texts) = 0 THEN <<>>
    ELSE IF Len(texts) = 1 THEN texts[1]
    ELSE texts[1] \o sep \o JoinTexts(Tail(texts), sep)

\* A set of texts as a sequence (the order a dict is iterated in).
RECURSIVE SetToSeq(_)
SetToSeq(S) == IF S = {} THEN <<>> ELSE LET x == CHOOSE y \in S : TRUE IN <<x>> \o SetToSeq(S \ {x})

(* json.dumps.  A JSON object's keys are strings: an int key is written as *)
(* its numeral between quotes.  Values json cannot encode are a TypeError. *)
JsonScalar(v) ==
    CASE v.t = "int" -> IntText(v.n)
      [] v.t = "float" -> FractionText(v.n)
      [] v.t = "bool" -> IF v.b THEN <<"t", "r", "u", "e">> ELSE <<"f", "a", "l", "s", "e">>
      [] v.t = "str" -> <<"\"">> \o v.s \o <<"\"">>
      [] OTHER -> <<>>

JsonKey(k) == <<"\"">> \o (IF k.t = "int" THEN IntText(k.n) ELSE k.s) \o <<"\"">>

JsonDumps(v) ==
    CASE v.t \in {"int", "float", "bool", "str"} -> PyStr(JsonScalar(v))
      [] v.t = "list" ->
            IF \A i \in 1..Len(v.l) : v.l[i].t \in {"int", "float", "bool", "str"}
            THEN PyStr(<<"[">> \o JoinTexts([i \in 1..Len(v.l) |-> JsonScalar(v.l[i])], <<",", " ">>)
                        \o <<"]">>)
            ELSE Raise("TypeError")
      [] v.t = "dict" ->
            IF \A kv \in v.items : kv[1].t \in {"int", "str"} /\ kv[2].t \in {"int", "float", "bool", "str"}
            THEN PyStr(<<"{">> \o JoinTexts(SetToSeq({JsonKey(kv[1]) \o <<":", " ">> \o JsonScalar(kv[2])
                                                      : kv \in v.items}), <<",", " ">>) \o <<"}">>)
            ELSE Raise("TypeError")
      [] OTHER -> Raise("TypeError")

\* The pieces of a text between the occurrences of the character sep.
RECURSIVE SplitText(_, _)
SplitText(s, sep) ==
    LET hits == {i \in 1..Len(s) : s[i] = sep}
    IN  IF hits = {} THEN <<s>>
        ELSE LET p == CHOOSE i \in hits : \A j \in hits : i <= j
             IN  <<SubSeq(s, 1, p - 1)>> \o SplitText(SubSeq(s, p + 1, Len(s)), sep)

StripLeft(s) == IF Len(s) > 0 /\ s[1] = " " THEN Tail(s) ELSE s
IsQuoted(s) ==
    /\ Len(s) >= 2 /\ s[1] = "\"" /\ s[Len(s)] = "\""
    /\ \A i \in 2..(Len(s) - 1) : s[i] # "\""
Unquote(s) == SubSeq(s, 2, Len(s) - 1)

JsonParseScalar(s) ==
    IF IsIntText(s) THEN PyInt(IntVal(s))
    ELSE IF ~IsRaise(ParseFloat(s)) THEN ParseFloat(s)
    ELSE IF s = <<"t", "r", "u", "e">> THEN PyBool(TRUE)
    ELSE IF s = <<"f", "a", "l", "s", "e">> THEN PyBool(FALSE)
    ELSE IF IsQuoted(s) THEN PyStr(Unquote(s))
    ELSE Raise("ValueError")

\* One "key": value member of a JSON object, as a <<key, value>> pair.
JsonParseMember(s) ==
    LET colons == {i \in 1..Len(s) : s[i] = ":"}
        p == CHOOSE i \in colons : \A j \in colons : i <= j
        k == SubSeq(s, 1, p - 1)
        v == JsonParseScalar(StripLeft(SubSeq(s, p + 1, Len(s))))
    IN  IF colons # {} /\ IsQuoted(k) /\ ~IsRaise(v) THEN <<PyStr(Unquote(k)), v>>
        ELSE <<Raise("ValueError"), Raise("ValueError")>>

(* json.loads of a str: scalars, arrays of scalars and objects of scalars; *)
(* a malformed text is a ValueError (JSONDecodeError), a non-str argument  *)
(* a TypeError.                                                            *)
JsonLoads(v) ==
    IF v.t # "str" THEN Raise("TypeError")
    ELSE LET s == v.s
             inner == SubSeq(s, 2, Len(s) - 1)
             parts == [i \in 1..Len(SplitText(inner, ",")) |-> StripLeft(SplitText(inner, ",")[i])]
         IN  IF Len(s) >= 2 /\ s[1] = "[" /\ s[Len(s)] = "]"
             THEN IF inner = <<>> THEN PyList(<<>>)
                  ELSE IF \A i \in 1..Len(parts) : ~IsRaise(JsonParseScalar(parts[i]))
                  THEN PyList([i \in 1..Len(parts) |-> JsonParseScalar(parts[i])])
                  ELSE Raise("ValueError")
             ELSE IF Len(s) >= 2 /\ s[1] = "{" /\ s[Len(s)] = "}"
             THEN IF inner = <<>> THEN PyDict({})
                  ELSE IF \A i \in 1..Len(parts) : ~IsRaise(JsonParseMember(parts[i])[1])
                  THEN PyDict({JsonParseMember(parts[i]) : i \in 1..Len(parts)})
                  ELSE Raise("ValueError")
             ELSE JsonParseScalar(s)

(* str(value).  The text of a list or dict of the model is its JSON text   *)
(* (Python's repr of a list of ints is the same text).                     *)
Str(v) ==
    CASE v.t = "str" -> v
      [] v.t = "int" -> PyStr(IntText(v.n))
      [] v.t \in {"float", "Decimal"} -> PyStr(FractionText(v.n))
      [] v.t = "bool" -> PyStr(IF v.b THEN <<"T", "r", "u", "e">> ELSE <<"F", "a", "l", "s", "e">>)
      [] v.t = "datetime" -> PyStr(IsoFormat(v))
      [] OTHER -> JsonDumps(v)

\* float(value): numbers convert, a str is parsed, anything else is a TypeError
Float(v) ==
    CASE v.t = "str" -> ParseFloat(v.s)
      [] v.t \in {"int", "float", "Decimal", "bool"} -> PyFloat(Tenths(v))
      [] OTHER -> Raise("TypeError")

\* bool(value): Python truthiness
Bool(v) ==
    CASE IsNumber(v) -> PyBool(Tenths(v) # 0)
      [] v.t = "str" -> PyBool(v.s # <<>>)
      [] v.t = "list" -> PyBool(v.l # <<>>)
      [] v.t = "dict" -> PyBool(v.items # {})
      [] v.t = "None" -> PyBool(FALSE)
      [] OTHER -> PyBool(TRUE)

\* faulty variant: the wall-clock reading is used whatever the zone
ToEpochDecimalWallClock(dt) ==
    IF dt.t # "datetime" THEN Raise("AttributeError") ELSE PyDecimal(10 * dt.wall)

(* _to_epoch_decimal: seconds between dt and the epoch; the epoch is made  *)
(* UTC-aware when dt carries a tzinfo.  A value without a tzinfo attribute *)
(* is an AttributeError.                                                   *)
ToEpochDecimal(dt) ==
    IF dt.t # "datetime" THEN Raise("AttributeError")
    ELSE PyDecimal(10 * (IF dt.aware THEN Instant(dt) ELSE dt.wall))

(***************************************************************************)
(* SERIALIZE_MAP and DESERIALIZE_MAP: the keys, and the converter applied  *)
(* to a value.                                                             *)
(***************************************************************************)
SerializeKeys == {"number", "string", "string:date-time", "string:ttl", "boolean", "object", "array"}
DeserializeKeys == {"number", "boolean", "object", "array"}

SerializeApply(sig, value) ==
    CASE sig \in {"number", "string"} -> Str(value)
      [] sig = "string:date-time" ->
            IF value.t = "datetime" THEN PyStr(IsoFormat(value)) ELSE Raise("AttributeError")
      [] sig = "string:ttl" -> ToEpochDecimal(value)
      [] sig = "boolean" -> PyInt(IF Bool(value).b THEN 1 ELSE 0)
      [] sig \in {"object", "array"} -> JsonDumps(value)

\* faulty variant: a JSON text is handed back as it is
DeserializeApplyNoJson(sig, value) ==
    CASE sig = "number" -> Float(value)
      [] sig = "boolean" -> Bool(value)
      [] sig \in {"object", "array"} -> value

DeserializeApply(sig, value) ==
    CASE sig = "number" -> Float(value)
      [] sig = "boolean" -> Bool(value)
      [] sig \in {"object", "array"} -> JsonLoads(value)

\* ":".join(t).rstrip(":")
TypeSignature(t) == IF t[2] = "" THEN t[1] ELSE t[1] \o ":" \o t[2]

(***************************************************************************)
(* The schema of the record type: for each property its set of (type,      *)
(* format) pairs, as DynamoSerializer._get_type_possibilities returns it.  *)
(* A Decimal field is "anyOf number, string"; a field the schema does not  *)
(* declare has no type.                                                    *)
(***************************************************************************)
Properties ==
    [id |-> {<<"integer", "">>},
     total |-> {<<"number", "">>},
     sigfig |-> {<<"number", "">>, <<"string", "">>},
     name |-> {<<"string", "">>},
     enabled |-> {<<"boolean", "">>},
     timestamp |-> {<<"string", "date-time">>},
     data |-> {<<"object", "">>},
     items |-> {<<"array", "">>},
     expires |-> {<<"string", "date-time">>}]

ttl_field == "expires"
FieldNames == DOMAIN Properties

GetTypePossibilities(field_name) ==
    IF field_name \in DOMAIN Properties THEN Properties[field_name] ELSE {}

\* The orders a set of types can be iterated in.
Orders(S) == {q \in [1..Cardinality(S) -> S] : \A i, j \in 1..Cardinality(S) : i # j => q[i] # q[j]}

(* One pass of "try: return MAP[signature](value); except KeyError: return *)
(* MAP[t[0]](value)": the value returned, or the exception that leaves it. *)
SerializeTry(t, value) ==
    LET first == IF TypeSignature(t) \in SerializeKeys THEN SerializeApply(TypeSignature(t), value)
                 ELSE Raise("KeyError")
    IN  IF first = Raise("KeyError")
        THEN IF t[1] \in SerializeKeys THEN SerializeApply(t[1], value) ELSE Raise("KeyError")
        ELSE first

DeserializeTry(t, value) ==
    LET first == IF TypeSignature(t) \in DeserializeKeys THEN DeserializeApply(TypeSignature(t), value)
                 ELSE Raise("KeyError")
    IN  IF first = Raise("KeyError")
        THEN IF t[1] \in DeserializeKeys THEN DeserializeApply(t[1], value) ELSE Raise("KeyError")
        ELSE first

Swallowed == {Raise("ValueError"), Raise("TypeError"), Raise("KeyError")}

RECURSIVE SerializeLoop(_, _)
SerializeLoop(types, value) ==
    IF Len(types) = 0 THEN value
    ELSE LET r == SerializeTry(types[1], value)
         IN  IF r \in Swallowed THEN SerializeLoop(Tail(types), value) ELSE r

RECURSIVE DeserializeLoop(_, _)
DeserializeLoop(types, value) ==
    IF Len(types) = 0 THEN value
    ELSE LET r == DeserializeTry(types[1], value)
         IN  IF r \in Swallowed THEN DeserializeLoop(Tail(types), value) ELSE r

\* DynamoSerializer._serialize_field, the field's types iterated in order
SerializeField(field_name, value, order) ==
    LET field_types == IF field_name = ttl_field THEN <<<<"string", "ttl">>>> ELSE order
    IN  IF value # None THEN SerializeLoop(field_types, value) ELSE value

\* DynamoSerializer._deserialize_field
DeserializeField(field_name, value, order) ==
    IF value # None THEN DeserializeLoop(order, value) ELSE value

(***************************************************************************)
(* rule_engine expressions (ast): the tree a Rule holds.                   *)
(***************************************************************************)
NoExpr == [kind |-> "none"]                     \* no Rule given (None)
Symbol(name) == [kind |-> "symbol", name |-> name]
FloatLit(tenths) == [kind |-> "float", value |-> tenths]   \* FloatExpression, value tenths/10
NullLit == [kind |-> "null"]
DatetimeLit(dt) == [kind |-> "datetime", dt |-> dt]        \* DatetimeExpression, value dt
BoolLit(b) == [kind |-> "boolean", b |-> b]                \* BooleanExpression
Comparison(type, left, right) == [kind |-> "comparison", type |-> type, left |-> left, right |-> right]
Logic(type, left, right) == [kind |-> "logic", type |-> type, left |-> left, right |-> right]
Contains(container, member) == [kind |-> "contains", container |-> container, member |-> member]

(***************************************************************************)
(* boto3.dynamodb.conditions: Key and Attr, the conditions built from      *)
(* them, and plain values.  Key has eq, lt, lte, gt, gte only; ne, exists, *)
(* not_exists and contains are methods of Attr alone.                      *)
(***************************************************************************)
Key(name) == [c |-> "Key", name |-> name]
Attr(name) == [c |-> "Attr", name |-> name]
Value(v) == [c |-> "Value", v |-> v]            \* a Python value; Value(None) is None
Cond(op, l, r) == [c |-> op, l |-> l, r |-> r]
Cond1(op, l) == [c |-> op, l |-> l]
Raised(exc) == [c |-> "Raise", exc |-> exc]

IsAttribute(x) == x.c \in {"Key", "Attr"}
IsCondition(x) ==
    x.c \in {"Eq", "Ne", "Lt", "Lte", "Gt", "Gte", "Contains", "AttributeExists",
             "AttributeNotExists", "And", "Or"}

\* faulty variant: Key has every method of Attr
CallMethodOnAny(left, method, right) ==
    IF ~IsAttribute(left) THEN Raised("AttributeError")
    ELSE IF method = "exists" THEN Cond1("AttributeExists", left)
    ELSE IF method = "not_exists" THEN Cond1("AttributeNotExists", left)
    ELSE Cond(CASE method = "eq" -> "Eq" [] method = "ne" -> "Ne" [] method = "lt" -> "Lt"
                [] method = "lte" -> "Lte" [] method = "gt" -> "Gt" [] method = "gte" -> "Gte"
                [] OTHER -> "Contains", left, right)

\* getattr(left, method)(right): the condition, or AttributeError
CallMethod(left, method, right) ==
    IF method \in {"eq", "lt", "lte", "gt", "gte"} /\ IsAttribute(left)
    THEN Cond(CASE method = "eq" -> "Eq" [] method = "lt" -> "Lt" [] method = "lte" -> "Lte"
                [] method = "gt" -> "Gt" [] method = "gte" -> "Gte", left, right)
    ELSE IF method \in {"ne", "contains"} /\ left.c = "Attr"
    THEN Cond(IF method = "ne" THEN "Ne" ELSE "Contains", left, right)
    ELSE IF method = "exists" /\ left.c = "Attr" THEN Cond1("AttributeExists", left)
    ELSE IF method = "not_exists" /\ left.c = "Attr" THEN Cond1("AttributeNotExists", left)
    ELSE Raised("AttributeError")

\* left & right, left | right: defined between two conditions
Combine(op, left, right) ==
    IF IsCondition(left) /\ IsCondition(right) THEN Cond(op, left, right)
    ELSE Raised("DynamoDBOperationNotSupportedError")

\* {"le": "lte", "ge": "gte"}.get(expr.type, expr.type)
MethodName(type) == CASE type = "le" -> "lte" [] type = "ge" -> "gte" [] OTHER -> type

(* expression_to_condition(expr, keys): the pair (condition, keys used),   *)
(* or the exception raised while building it.                              *)
RECURSIVE ExpressionToCondition(_, _)
ExpressionToCondition(expr, keys) ==
    CASE expr.kind = "logic" ->
            LET l == ExpressionToCondition(expr.left, keys)
                r == ExpressionToCondition(expr.right, keys)
            IN  IF l.val.c = "Raise" THEN l
                ELSE IF r.val.c = "Raise" THEN r
                ELSE IF expr.type \in {"and", "or"}
                THEN [val |-> Combine(IF expr.type = "and" THEN "And" ELSE "Or", l.val, r.val),
                      keys |-> l.keys \cup r.keys]
                ELSE [val |-> Raised("NotImplementedError"), keys |-> {}]
      [] expr.kind = "comparison" ->
            LET l == ExpressionToCondition(expr.left, keys)
                r == ExpressionToCondition(expr.right, keys)
                exit_keys == l.keys \cup r.keys
                isNone == r.val = Value(None)
            IN  IF l.val.c = "Raise" THEN l
                ELSE IF r.val.c = "Raise" THEN r
                ELSE IF expr.type = "eq"
                THEN [val |-> IF ~isNone THEN CallMethod(l.val, "eq", r.val)
                              ELSE CallMethod(l.val, "not_exists", r.val),
                      keys |-> exit_keys]
                ELSE IF expr.type = "ne"
                THEN [val |-> IF ~isNone THEN CallMethod(l.val, "ne", r.val)
                              ELSE CallMethod(l.val, "exists", r.val),
                      keys |-> exit_keys]
                ELSE [val |-> CallMethod(l.val, MethodName(expr.type), r.val), keys |-> exit_keys]
      [] expr.kind = "symbol" ->
            IF expr.name \in keys THEN [val |-> Key(expr.name), keys |-> {expr.name}]
            ELSE [val |-> Attr(expr.name), keys |-> {}]
      [] expr.kind = "null" -> [val |-> Value(None), keys |-> {}]
      [] expr.kind = "datetime" -> [val |-> Value(ToEpochDecimal(expr.dt)), keys |-> {}]
      [] expr.kind = "string" -> [val |-> Value(PyStr(expr.text)), keys |-> {}]
      [] expr.kind = "float" ->
            [val |-> Value(IF expr.value % 10 = 0 THEN PyInt(expr.value \div 10) ELSE PyFloat(expr.value)),
             keys |-> {}]
      [] expr.kind = "contains" ->
            LET container == ExpressionToCondition(expr.container, keys)
                member == ExpressionToCondition(expr.member, keys)
            IN  IF container.val.c = "Raise" THEN container
                ELSE IF member.val.c = "Raise" THEN member
                ELSE [val |-> CallMethod(container.val, "contains", member.val),
                      keys |-> container.keys \cup member.keys]
      [] OTHER -> [val |-> Raised("NotImplementedError"), keys |-> {}]

\* faulty variant: no name is taken for a key
RuleToBotoExpressionNoKeys(rule, keys) == ExpressionToCondition(rule, {})

\* rule_to_boto_expression(rule, keys): an exception anywhere leaves the call
RuleToBotoExpression(rule, keys) ==
    LET r == ExpressionToCondition(rule, keys)
    IN  IF r.val.c = "Raise" THEN [val |-> r.val, keys |-> {}] ELSE r

(***************************************************************************)
(* Record types and their Config.  local_indexes and global_indexes are    *)
(* kept in declaration order as <<name, keys>> pairs.  A Python None       *)
(* range_key or index name is the empty string (both are falsy).           *)
(***************************************************************************)
PRIMARY == ""        \* index_map's value for the primary key: None, no IndexName is sent

SimpleKeyModel ==
    [title |-> "simple", hash_key |-> "name", range_key |-> "",
     local_indexes |-> <<>>,
     global_indexes |-> << <<"by-id", <<"id">> >> >>,
     fields |-> {"name", "id", "timestamp"}]

ComplexKeyModel ==
    [title |-> "complex", hash_key |-> "account", range_key |-> "sort_date_key",
     local_indexes |-> << <<"by-category", <<"account", "category_id">> >>,
                          <<"by-notification", <<"account", "notification_id">> >> >>,
     global_indexes |-> <<>>,
     fields |-> {"account", "sort_date_key", "category_id", "notification_id", "body"}]

Configs == {SimpleKeyModel, ComplexKeyModel}

Range(f) == {f[i] : i \in DOMAIN f}

\* dict(**self.local_indexes, **self.global_indexes).items()
Indexes(cfg) == cfg.local_indexes \o cfg.global_indexes

PrimaryKey(cfg) == IF cfg.range_key # "" THEN <<cfg.hash_key, cfg.range_key>> ELSE <<cfg.hash_key>>

(* Backend.__init__: index_map, as the sequence of its keys in insertion   *)
(* order and the lookup of a key tuple; an index declared over the key     *)
(* tuple of the primary key takes its place.                               *)
IndexMapKeys(cfg) ==
    LET declared == [i \in 1..Len(Indexes(cfg)) |-> Indexes(cfg)[i][2]]
    IN  <<PrimaryKey(cfg)>> \o SelectSeq(declared, LAMBDA k : k # PrimaryKey(cfg))

\* faulty variant: every key tuple maps to the primary key
IndexMapAllPrimary(cfg, keys) == PRIMARY

IndexMap(cfg, keys) ==
    LET hits == {i \in 1..Len(Indexes(cfg)) : Indexes(cfg)[i][2] = keys}
    IN  IF hits = {} THEN PRIMARY
        ELSE Indexes(cfg)[CHOOSE i \in hits : \A j \in hits : j <= i][1]

\* Backend.__init__: possible_keys
PossibleKeys(cfg) ==
    {cfg.hash_key} \cup (IF cfg.range_key # "" THEN {cfg.range_key} ELSE {})
        \cup UNION {Range(Indexes(cfg)[i][2]) : i \in 1..Len(Indexes(cfg))}

(* Backend._get_best_index.score_index: 3 for a perfect match, 2 when the  *)
(* index has more attributes than were used, 0 for the NotImplementedError *)
(* of the last line.                                                       *)
ScoreIndex(index, keys_used) ==
    IF Range(index) = keys_used THEN 3
    ELSE IF Len(index) > Cardinality(keys_used) THEN 2
    ELSE 0

\* faulty variant: no index is ever chosen
GetBestIndexNone(cfg, keys_used) == [raised |-> FALSE, name |-> PRIMARY]

(* Backend._get_best_index: the index name, PRIMARY, or NotImplementedError *)
(* out of score_index.  sorted() is stable and ascending, and the first    *)
(* element is taken.                                                       *)
GetBestIndex(cfg, keys_used) ==
    LET candidates == SelectSeq(IndexMapKeys(cfg), LAMBDA k : Range(k) \subseteq keys_used)
        possible_indexes ==
            SelectSeq(candidates, LAMBDA k : ScoreIndex(k, keys_used) = 2)
                \o SelectSeq(candidates, LAMBDA k : ScoreIndex(k, keys_used) = 3)
    IN  IF \E i \in 1..Len(candidates) : ScoreIndex(candidates[i], keys_used) = 0
        THEN [raised |-> TRUE, name |-> PRIMARY]
        ELSE IF Len(possible_indexes) > 0
        THEN [raised |-> FALSE, name |-> IndexMap(cfg, possible_indexes[1])]
        ELSE [raised |-> FALSE, name |-> PRIMARY]

(***************************************************************************)
(* The table held by DynamoDB.  An item maps attribute names to values.    *)
(***************************************************************************)
MaxSort == 3         \* range-key values (and hash-key values of the simple table) are 1..MaxSort

TableOf(cfg) ==
    IF cfg = SimpleKeyModel
    THEN {[name |-> PyInt(n), id |-> PyInt((n % 2) + 1), timestamp |-> PyInt(n)] : n \in 1..MaxSort}
    ELSE {[account |-> PyInt(a), sort_date_key |-> PyInt(s), category_id |-> PyInt((s % 2) + 1),
           notification_id |-> PyInt(s), body |-> PyInt(IF s = 1 THEN 2 ELSE 1)] : a \in 1..2, s \in 1..MaxSort}

(* Whether an item satisfies a condition, as DynamoDB evaluates it.  An    *)
(* attribute the item lacks satisfies only attribute_not_exists; numbers   *)
(* compare by value, other values are equal when identical, and an order   *)
(* comparison or contains() on values that are not numbers is false.       *)
RECURSIVE Holds(_, _)
Holds(cond, item) ==
    CASE cond.c = "And" -> Holds(cond.l, item) /\ Holds(cond.r, item)
      [] cond.c = "Or" -> Holds(cond.l, item) \/ Holds(cond.r, item)
      [] cond.c = "AttributeExists" -> cond.l.name \in DOMAIN item
      [] cond.c = "AttributeNotExists" -> cond.l.name \notin DOMAIN item
      [] cond.c = "Contains" -> FALSE
      [] OTHER ->
            /\ cond.l.name \in DOMAIN item
            /\ LET a == item[cond.l.name]
                   b == cond.r.v
                   numbers == a.t \in {"int", "float", "Decimal"} /\ b.t \in {"int", "float", "Decimal"}
               IN  CASE cond.c = "Eq" -> IF numbers THEN Tenths(a) = Tenths(b) ELSE a = b
                     [] cond.c = "Ne" -> IF numbers THEN Tenths(a) # Tenths(b) ELSE a # b
                     [] cond.c = "Lt" -> numbers /\ Tenths(a) < Tenths(b)
                     [] cond.c = "Lte" -> numbers /\ Tenths(a) <= Tenths(b)
                     [] cond.c = "Gt" -> numbers /\ Tenths(a) > Tenths(b)
                     [] cond.c = "Gte" -> numbers /\ Tenths(a) >= Tenths(b)

\* The attributes of a condition that are Attr objects, and all its attribute names.
RECURSIVE AttrsOf(_)
AttrsOf(cond) ==
    CASE cond.c \in {"And", "Or"} -> AttrsOf(cond.l) \cup AttrsOf(cond.r)
      [] cond.c = "Attr" -> {cond.name}
      [] cond.c \in {"Key", "Value"} -> {}
      [] cond.c \in {"AttributeExists", "AttributeNotExists"} -> AttrsOf(cond.l)
      [] OTHER -> AttrsOf(cond.l) \cup AttrsOf(cond.r)

RECURSIVE NamesOf(_)
NamesOf(cond) ==
    CASE cond.c \in {"And", "Or"} -> NamesOf(cond.l) \cup NamesOf(cond.r)
      [] cond.c \in {"Key", "Attr"} -> {cond.name}
      [] cond.c = "Value" -> {}
      [] cond.c \in {"AttributeExists", "AttributeNotExists"} -> NamesOf(cond.l)
      [] OTHER -> NamesOf(cond.l) \cup NamesOf(cond.r)

\* The key schema a query runs against: the primary key or the named index's keys.
KeySchema(cfg, index_name) ==
    IF index_name = PRIMARY THEN PrimaryKey(cfg)
    ELSE LET i == CHOOSE j \in 1..Len(Indexes(cfg)) : Indexes(cfg)[j][1] = index_name
         IN  Indexes(cfg)[i][2]

(* DynamoDB accepts as a key condition an equality on the partition key,   *)
(* alone or AND-ed (either side) with one comparison on the sort key.      *)
IsHashEq(cond, schema) == cond.c = "Eq" /\ cond.l.name = schema[1]
IsRangeCond(cond, schema) ==
    /\ Len(schema) = 2
    /\ cond.c \in {"Eq", "Lt", "Lte", "Gt", "Gte"}
    /\ cond.l.name = schema[2]
ValidKeyCondition(cond, schema) ==
    \/ IsHashEq(cond, schema)
    \/ /\ cond.c = "And"
       /\ \/ IsHashEq(cond.l, schema) /\ IsRangeCond(cond.r, schema)
          \/ IsHashEq(cond.r, schema) /\ IsRangeCond(cond.l, schema)

\* Items in the order of a key schema: by sort key, then by the table's primary key.
OrderKey(cfg, schema, item) ==
    <<IF Len(schema) = 2 THEN Tenths(item[schema[2]]) ELSE 0,
      Tenths(item[cfg.hash_key]),
      IF cfg.range_key # "" THEN Tenths(item[cfg.range_key]) ELSE 0>>

Before(a, b) ==
    \/ a[1] < b[1]
    \/ a[1] = b[1] /\ a[2] < b[2]
    \/ a[1] = b[1] /\ a[2] = b[2] /\ a[3] < b[3]

RECURSIVE Sorted(_, _, _)
Sorted(S, cfg, schema) ==
    IF S = {} THEN <<>>
    ELSE LET first == CHOOSE x \in S :
                        \A y \in S \ {x} : Before(OrderKey(cfg, schema, x), OrderKey(cfg, schema, y))
         IN  <<first>> \o Sorted(S \ {first}, cfg, schema)

Reverse(s) == [i \in 1..Len(s) |-> s[Len(s) + 1 - i]]

\* The key of an item as LastEvaluatedKey gives it: table key and index key attributes.
KeyOf(cfg, schema, item) ==
    [a \in Range(PrimaryKey(cfg)) \cup Range(schema) |-> item[a]]

NoKey == <<>>        \* no LastEvaluatedKey / no ExclusiveStartKey

(* One page of a Query or Scan over the items seq in order: start after    *)
(* ExclusiveStartKey, evaluate at most Limit items, then apply the filter  *)
(* to the items evaluated.  LastEvaluatedKey is the key of the last item   *)
(* evaluated when the Limit stopped the page; when the page stopped on the *)
(* very last item the service may or may not return it (lekAtEnd).         *)
Page(cfg, schema, seq, params, lekAtEnd) ==
    LET esk == params.ExclusiveStartKey
        at == {i \in 1..Len(seq) : KeyOf(cfg, schema, seq[i]) = esk}
        start == IF esk = NoKey THEN 1 ELSE (CHOOSE i \in at : TRUE) + 1
        stop == IF params.Limit > 0 /\ start + params.Limit - 1 < Len(seq)
                THEN start + params.Limit - 1 ELSE Len(seq)
        evaluated == SubSeq(seq, start, stop)
        returned == IF params.FilterExpression = Value(None) THEN evaluated
                    ELSE SelectSeq(evaluated, LAMBDA it : Holds(params.FilterExpression, it))
        limited == params.Limit > 0 /\ Len(evaluated) = params.Limit
        more == stop < Len(seq)
    IN  IF esk # NoKey /\ at = {}
        THEN [error |-> "ValidationException"]
        ELSE [error |-> "", Items |-> returned, Count |-> Len(returned),
              ScannedCount |-> Len(evaluated),
              LastEvaluatedKey |-> IF limited /\ (more \/ lekAtEnd)
                                   THEN KeyOf(cfg, schema, evaluated[Len(evaluated)]) ELSE NoKey]

(* table.query with params.  boto3 refuses a KeyConditionExpression holding  *)
(* an Attr (DynamoDBNeedsKeyConditionError) before sending; DynamoDB       *)
(* answers ValidationException to a key condition that does not fit the    *)
(* key schema and to a filter on a key attribute.                          *)
TableQuery(cfg, items, params, lekAtEnd) ==
    LET schema == KeySchema(cfg, params.IndexName)
        kc == params.KeyConditionExpression
        matching == {it \in items : Holds(kc, it)}
        seq == IF params.ScanIndexForward THEN Sorted(matching, cfg, schema)
               ELSE Reverse(Sorted(matching, cfg, schema))
    IN  IF AttrsOf(kc) # {} THEN [error |-> "DynamoDBNeedsKeyConditionError"]
        ELSE IF ~ValidKeyCondition(kc, schema) THEN [error |-> "ValidationException"]
        ELSE IF /\ params.FilterExpression # Value(None)
                /\ NamesOf(params.FilterExpression) \cap Range(schema) # {}
        THEN [error |-> "ValidationException"]
        ELSE Page(cfg, schema, seq, params, lekAtEnd)

\* table.scan with params: every item, in the order of the primary key
TableScan(cfg, items, params, lekAtEnd) ==
    Page(cfg, PrimaryKey(cfg), Sorted(items, cfg, PrimaryKey(cfg)), params, lekAtEnd)

(***************************************************************************)
(* Backend.query of the DynamoDB backend.                                  *)
(***************************************************************************)
NoKeysInQueryMsg == "No keys in query expression. Use a filter expression or add an index."
NoKeysMsg == "No keys in expression. Enable scan or add an index."
NonKeyMsg == "Non-key attributes are not valid in the query expression. Use filter expression"
ScanOrderMsg == "Scans do not support reverse order."

NoResult == [kind |-> "none"]
Raises(exc, msg, at) == [kind |-> "raise", exc |-> exc, msg |-> msg, at |-> at]
NoCall == [op |-> "none"]

\* faulty variant: the exclusive_start_key is not passed on
QueryParamsFromStart(limit, exclusive_start_key, f_expr) ==
    [Limit |-> IF limit # 0 THEN limit ELSE 0,
     ExclusiveStartKey |-> NoKey,
     FilterExpression |-> f_expr,
     KeyConditionExpression |-> Value(None),
     ScanIndexForward |-> TRUE,
     IndexName |-> PRIMARY]

\* params as query() fills them; a parameter that is not sent holds its neutral value
QueryParams(limit, exclusive_start_key, f_expr) ==
    [Limit |-> IF limit # 0 THEN limit ELSE 0,
     ExclusiveStartKey |-> IF exclusive_start_key # NoKey THEN exclusive_start_key ELSE NoKey,
     FilterExpression |-> f_expr,
     KeyConditionExpression |-> Value(None),
     ScanIndexForward |-> TRUE,
     IndexName |-> PRIMARY]

\* faulty variants: the checks that refuse a query without usable keys never fire
NoKeysInQueryNever(keys_used, filter_expr) == FALSE
OutsidePrimaryKeyNever(cfg, keys_used) == FALSE

\* "if not keys_used and not filter_expr"
NoKeysInQuery(keys_used, filter_expr) == keys_used = {} /\ filter_expr = NoExpr

\* "elif not keys_used.issubset({self.hash_key, self.range_key})"
OutsidePrimaryKey(cfg, keys_used) == ~(keys_used \subseteq {cfg.hash_key, cfg.range_key})

\* DynamoIterableResult over the deserialized items of a response
DynamoIterableResult(resp) ==
    [kind |-> "result", records |-> resp.Items, count |-> resp.Count,
     scanned_count |-> resp.ScannedCount, last_evaluated_key |-> resp.LastEvaluatedKey]

(* Backend.query: what it returns or raises (res) and the table call it    *)
(* issued (call).  The attributes of the items are integers, which         *)
(* deserialize_record passes through unchanged.                            *)
BackendQuery(cfg, items, query_expr, filter_expr, limit, exclusive_start_key, order, lekAtEnd) ==
    LET f == IF filter_expr # NoExpr THEN RuleToBotoExpression(filter_expr, {})
             ELSE [val |-> Value(None), keys |-> {}]
        params == QueryParams(limit, exclusive_start_key, f.val)
        q == RuleToBotoExpression(query_expr, PossibleKeys(cfg))
        best == GetBestIndex(cfg, q.keys)
        qparams == [params EXCEPT !.KeyConditionExpression = q.val,
                                  !.ScanIndexForward = (order = "asc"),
                                  !.IndexName = best.name]
        qresp == TableQuery(cfg, items, qparams, lekAtEnd)
        sresp == TableScan(cfg, items, params, lekAtEnd)
    IN  IF f.val.c = "Raise" THEN [res |-> Raises(f.val.exc, "", "compile"), call |-> NoCall]
        ELSE IF query_expr # NoExpr
        THEN IF q.val.c = "Raise" THEN [res |-> Raises(q.val.exc, "", "compile"), call |-> NoCall]
             ELSE IF NoKeysInQuery(q.keys, filter_expr)
             THEN [res |-> Raises("ConditionCheckFailed", NoKeysInQueryMsg, "query"), call |-> NoCall]
             ELSE IF best.raised
             THEN [res |-> Raises("NotImplementedError", "", "score_index"), call |-> NoCall]
             ELSE IF best.name = PRIMARY /\ OutsidePrimaryKey(cfg, q.keys)
             THEN [res |-> Raises("ConditionCheckFailed", NoKeysMsg, "query"), call |-> NoCall]
             ELSE [res |-> IF qresp.error = "DynamoDBNeedsKeyConditionError"
                           THEN Raises("ConditionCheckFailed", NonKeyMsg, "table.query")
                           ELSE IF qresp.error # ""
                           THEN Raises("ClientError", qresp.error, "table.query")
                           ELSE DynamoIterableResult(qresp),
                   call |-> [op |-> "query", params |-> qparams]]
        ELSE IF order # "asc"
        THEN [res |-> Raises("ConditionCheckFailed", ScanOrderMsg, "query"), call |-> NoCall]
        ELSE [res |-> IF sresp.error # "" THEN Raises("ClientError", sresp.error, "table.scan")
                      ELSE DynamoIterableResult(sresp),
              call |-> [op |-> "scan", params |-> params]]

(***************************************************************************)
(* SpecQuery: a caller queries a record type and, while the result carries *)
(* a last_evaluated_key, asks for the next page with it.                   *)
(***************************************************************************)
MaxLit == 2          \* number literals of the expressions are 1..MaxLit
MaxLimit == 2        \* limit is None (0) or 1..MaxLimit

CmpTypes == {"eq", "ne", "lt", "gt", "le", "ge"}
Numbers == {FloatLit(10 * i) : i \in 1..MaxLit}

Comparisons(cfg) ==
    {Comparison(type, Symbol(a), lit) : type \in CmpTypes, a \in cfg.fields, lit \in Numbers}
        \cup {Comparison(type, Symbol(a), NullLit) : type \in {"eq", "ne"}, a \in cfg.fields}

KeyComparisons(cfg) ==
    {Comparison(type, Symbol(a), lit) : type \in {"eq", "ge"}, a \in cfg.fields, lit \in Numbers}

\* The query expressions of the model: a comparison, a containment, or two joined by and / or.
QueryExprs(cfg) ==
    Comparisons(cfg)
        \cup {Contains(Symbol(a), FloatLit(10)) : a \in cfg.fields}
        \cup {Logic(type, Comparison("eq", Symbol(a), FloatLit(10)), c) :
                type \in {"and", "or"}, a \in cfg.fields, c \in KeyComparisons(cfg)}
        \cup {Logic("and", c, Comparison("eq", Symbol(a), FloatLit(10))) :
                a \in cfg.fields, c \in KeyComparisons(cfg)}

NonKeyFields(cfg) == cfg.fields \ PossibleKeys(cfg)

FilterExprs(cfg) ==
    {Comparison("eq", Symbol(a), FloatLit(10)) : a \in NonKeyFields(cfg) \cup {cfg.hash_key}}

QueryIdle ==
    /\ qCfg = [title |-> ""] /\ qArgs = NoResult /\ qRes = NoResult /\ qCall = NoCall /\ qPages = <<>>

InitQuery ==
    /\ qCfg \in Configs
    /\ qArgs = NoResult
    /\ qRes = NoResult
    /\ qCall = NoCall
    /\ qPages = <<>>

\* cls.query(query_expr, filter_expr, limit=..., order=...): the first page
Query(query_expr, filter_expr, limit, order) ==
    /\ qRes = NoResult
    /\ \E lekAtEnd \in BOOLEAN :
         LET out == BackendQuery(qCfg, TableOf(qCfg), query_expr, filter_expr, limit, NoKey, order,
                                 lekAtEnd)
         IN  /\ qArgs' = [kind |-> "args", query_expr |-> query_expr, filter_expr |-> filter_expr,
                          limit |-> limit, order |-> order]
             /\ qRes' = out.res
             /\ qCall' = out.call
             /\ qPages' = IF out.res.kind = "result" THEN out.res.records ELSE <<>>
    /\ UNCHANGED qCfg
    /\ UNCHANGED <<codecVars, storeVars, versionedVars, schemaVars, batchVars, sqlVars, compileVars, plannerVars, writerVars, iterVars>>

\* the same query again with exclusive_start_key=res.last_evaluated_key
QueryNextPage ==
    /\ qRes.kind = "result"
    /\ qRes.last_evaluated_key # NoKey
    /\ \E lekAtEnd \in BOOLEAN :
         LET out == BackendQuery(qCfg, TableOf(qCfg), qArgs.query_expr, qArgs.filter_expr,
                                 qArgs.limit, qRes.last_evaluated_key, qArgs.order, lekAtEnd)
         IN  /\ qRes' = out.res
             /\ qCall' = out.call
             /\ qPages' = IF out.res.kind = "result" THEN qPages \o out.res.records ELSE qPages
    /\ UNCHANGED <<qCfg, qArgs>>
    /\ UNCHANGED <<codecVars, storeVars, versionedVars, schemaVars, batchVars, sqlVars, compileVars, plannerVars, writerVars, iterVars>>

NextQuery ==
    \/ \E query_expr \in QueryExprs(qCfg) \cup {NoExpr}, filter_expr \in FilterExprs(qCfg) \cup {NoExpr},
          limit \in 0..MaxLimit, order \in {"asc", "desc"} :
            Query(query_expr, filter_expr, limit, order)
    \/ QueryNextPage

(***************************************************************************)
(* SpecCodec: a value of a field's declared type is serialized for the     *)
(* table and the result deserialized again.                                *)
(***************************************************************************)
Ints == (0 - MaxInt)..MaxInt
\* numbers with one decimal: whole numbers, and the fractions .1 and .5
TenthsValues == {10 * i + f : i \in Ints, f \in {0, 1, 5}}
Datetimes ==
    {PyDatetime(w, FALSE, 0) : w \in 0..MaxInt} \cup {PyDatetime(w, TRUE, o) : w \in 0..MaxInt, o \in {0, 1}}
DictKeys == {PyInt(i) : i \in Ints} \cup {PyStr(<<"a">>)}

\* The values a record can hold in a field, by the field's declared type.
TypedValues(field_name) ==
    CASE field_name = "id" -> {PyInt(i) : i \in Ints}
      [] field_name = "total" -> {PyFloat(n) : n \in TenthsValues}
      [] field_name = "sigfig" -> {PyDecimal(n) : n \in TenthsValues}
      [] field_name = "name" -> {PyStr(<<>>), PyStr(<<"a">>), PyStr(<<"1">>)}
      [] field_name = "enabled" -> {PyBool(TRUE), PyBool(FALSE)}
      [] field_name = "timestamp" -> Datetimes
      [] field_name = "data" ->
            {None, PyDict({})} \cup {PyDict({<<k, PyInt(i)>>}) : k \in DictKeys, i \in Ints}
      [] field_name = "items" ->
            {PyList(<<>>)} \cup {PyList(<<PyInt(i)>>) : i \in Ints}
                \cup {PyList(<<PyInt(i), PyInt(j)>>) : i, j \in Ints}
      [] field_name = "expires" -> Datetimes

CodecIdle ==
    /\ cField = "" /\ cValue = NotRun /\ cOrder = <<>> /\ cSer = NotRun /\ cDe = NotRun

InitCodec ==
    /\ cField \in FieldNames
    /\ cValue \in TypedValues(cField)
    /\ cOrder \in Orders(GetTypePossibilities(cField))
    /\ cSer = NotRun
    /\ cDe = NotRun

\* serialize_record applies _serialize_field to the field
Serialize ==
    /\ cSer = NotRun
    /\ cSer' = SerializeField(cField, cValue, cOrder)
    /\ UNCHANGED <<cField, cValue, cOrder, cDe>>
    /\ UNCHANGED <<queryVars, storeVars, versionedVars, schemaVars, batchVars, sqlVars, compileVars, plannerVars, writerVars, iterVars>>

\* deserialize_record applies _deserialize_field to what was serialized
Deserialize ==
    /\ cSer # NotRun /\ ~IsRaise(cSer)
    /\ cDe = NotRun
    /\ cDe' = DeserializeField(cField, cSer, cOrder)
    /\ UNCHANGED <<cField, cValue, cOrder, cSer>>
    /\ UNCHANGED <<queryVars, storeVars, versionedVars, schemaVars, batchVars, sqlVars, compileVars, plannerVars, writerVars, iterVars>>

NextCodec == Serialize \/ Deserialize

(***************************************************************************)
(* SpecCodecAny: _serialize_field and _deserialize_field applied to a      *)
(* field, declared or not, holding a value of any type.                    *)
(***************************************************************************)
AnyFields == FieldNames \cup {"extra"}
AnyValues ==
    {None, PyInt(1), PyFloat(15), PyDecimal(15), PyBool(TRUE), PyStr(<<"a">>), PyStr(<<"1">>),
     PyDatetime(1, FALSE, 0), PyDatetime(1, TRUE, 1), PyDict({}), PyList(<<PyInt(1)>>)}

InitCodecAny ==
    /\ cField \in AnyFields
    /\ cValue \in AnyValues
    /\ cOrder \in Orders(GetTypePossibilities(cField))
    /\ cSer = NotRun
    /\ cDe = NotRun

\* _serialize_field(field_name, value)
SerializeAny ==
    /\ cSer = NotRun
    /\ cSer' = SerializeField(cField, cValue, cOrder)
    /\ UNCHANGED <<cField, cValue, cOrder, cDe>>
    /\ UNCHANGED <<queryVars, storeVars, versionedVars, schemaVars, batchVars, sqlVars, compileVars, plannerVars, writerVars, iterVars>>

\* _deserialize_field(field_name, value)
DeserializeAny ==
    /\ cDe = NotRun
    /\ cDe' = DeserializeField(cField, cValue, cOrder)
    /\ UNCHANGED <<cField, cValue, cOrder, cSer>>
    /\ UNCHANGED <<queryVars, storeVars, versionedVars, schemaVars, batchVars, sqlVars, compileVars, plannerVars, writerVars, iterVars>>

NextCodecAny == SerializeAny \/ DeserializeAny
(***************************************************************************)
(* A record type with a hash key and no range key, on each backend.  The   *)
(* record type has the fields name (str, the hash key), id (int) and       *)
(* enabled (bool).                                                         *)
(***************************************************************************)
StoreHashKey == "name"
StoreFields == <<"name", "id", "enabled">>
StoreKeys == {PyStr(<<"a">>), PyStr(<<"b">>)}
StoreRecords ==
    {[name |-> k, id |-> PyInt(i), enabled |-> PyBool(b)] : k \in StoreKeys, i \in 0..MaxInt, b \in BOOLEAN}
Backends == {"dynamodb", "sqlite", "app"}

\* an exception raised by get
DoesNotExist == Raise("DoesNotExist")

\* the iteration order of a field's types
TypeOrder(field_name) == CHOOSE q \in Orders(GetTypePossibilities(field_name)) : TRUE

\* DynamoSerializer.serialize_record and deserialize_record
SerializeRecord(data_dict) ==
    [field_name \in DOMAIN data_dict |->
        SerializeField(field_name, data_dict[field_name], TypeOrder(field_name))]

DeserializeRecord(data_dict) ==
    [field_name \in DOMAIN data_dict |->
        DeserializeField(field_name, data_dict[field_name], TypeOrder(field_name))]

\* A value as boto3 hands it back from the table: a number attribute is a Decimal.
FromDynamo(v) == IF v.t \in {"int", "float", "Decimal"} THEN PyDecimal(Tenths(v)) ELSE v

\* A value as sqlite3 hands it back from a column: a bool was stored as an integer.
FromSqlite(v) == IF v.t = "bool" THEN PyInt(IF v.b THEN 1 ELSE 0) ELSE v

(* pydantic's validation of a field against its declared type: a whole     *)
(* number is accepted for an int field, 0 and 1 for a bool field.          *)
ValidateField(field_name, v) ==
    CASE field_name = "name" -> IF v.t = "str" THEN v ELSE Raise("ValidationError")
      [] field_name = "id" ->
            IF IsNumber(v) /\ Tenths(v) % 10 = 0 THEN PyInt(Tenths(v) \div 10)
            ELSE Raise("ValidationError")
      [] field_name = "enabled" ->
            IF IsNumber(v) /\ Tenths(v) \in {0, 10} THEN PyBool(Tenths(v) = 10)
            ELSE Raise("ValidationError")

\* cls.model_validate(data) / cls.parse_obj(data)
ModelValidate(data) ==
    LET out == [f \in DOMAIN data |-> ValidateField(f, data[f])]
    IN  IF \E f \in DOMAIN out : IsRaise(out[f]) THEN Raise("ValidationError") ELSE out

\* table.get_item(Key=...): the stored item with that key, if there is one
GetItem(tbl, hash_key, key) == {item \in tbl : item[hash_key] = key}

\* table.put_item(Item=data): the item replaces the stored item with the same key
PutItem(tbl, hash_key, data) == {item \in tbl : item[hash_key] # data[hash_key]} \cup {data}

DeleteItemKeepsAll(tbl, hash_key, key) == tbl

\* table.delete_item(Key=...)
DeleteItem(tbl, hash_key, key) == {item \in tbl : item[hash_key] # key}

\* the response's ResponseMetadata.HTTPStatusCode of a call that did not raise
HTTPStatusCode == 200

\* Backend.get of the DynamoDB backend, called with the hash key's value
DynamoGet(tbl, key) ==
    LET found == GetItem(tbl, StoreHashKey, key)
    IN  IF found = {} THEN DoesNotExist
        ELSE DeserializeRecord([f \in DOMAIN (CHOOSE i \in found : TRUE) |->
                                    FromDynamo((CHOOSE i \in found : TRUE)[f])])

\* Backend.save of the DynamoDB backend, without a condition
DynamoSave(tbl, item) ==
    LET data == SerializeRecord(item)
    IN  [table |-> PutItem(tbl, StoreHashKey, data), result |-> PyBool(HTTPStatusCode = 200)]

\* the row of a record: its values in column order
RowOf(item_data) == [i \in 1..Len(StoreFields) |-> item_data[StoreFields[i]]]

\* Backend._deserialize_record of the SQLite backend
SqliteDeserializeRecord(res_tuple) ==
    [field_name \in {StoreFields[i] : i \in 1..Len(StoreFields)} |->
        FromSqlite(res_tuple[CHOOSE i \in 1..Len(StoreFields) : StoreFields[i] = field_name])]

\* Backend.get of the SQLite backend
SqliteGet(tbl, item_key) ==
    LET res == {row \in tbl : row[1] = item_key}
    IN  IF res = {} THEN DoesNotExist ELSE SqliteDeserializeRecord(CHOOSE row \in res : TRUE)

\* Backend.save of the SQLite backend, without a condition
SqliteSave(tbl, item) ==
    LET key == item[StoreHashKey]
        values == RowOf(item)
    IN  IF SqliteGet(tbl, key) # DoesNotExist
        THEN [table |-> {IF row[1] = key THEN values ELSE row : row \in tbl}, result |-> PyBool(TRUE)]
        ELSE [table |-> tbl \cup {values}, result |-> PyBool(TRUE)]

\* Backend.delete of the SQLite backend
SqliteDelete(tbl, item_key) == {row \in tbl : row[1] # item_key}

\* UnversionedBaseModel.get of app/models
AppGet(tbl, item_key) ==
    LET found == GetItem(tbl, StoreHashKey, item_key)
    IN  IF found = {} THEN DoesNotExist
        ELSE ModelValidate([f \in DOMAIN (CHOOSE i \in found : TRUE) |->
                                FromDynamo((CHOOSE i \in found : TRUE)[f])])

(* UnversionedBaseModel.save of app/models.  The condition of the          *)
(* overwriting put, Key(hash_key).eq(key), holds of the item it replaces.  *)
AppSave(tbl, item) ==
    IF AppGet(tbl, item[StoreHashKey]) # DoesNotExist
    THEN [table |-> PutItem(tbl, StoreHashKey, item), result |-> PyBool(FALSE)]
    ELSE [table |-> PutItem(tbl, StoreHashKey, item), result |-> PyBool(TRUE)]

(***************************************************************************)
(* SpecStore: one caller saves records, gets them by key and deletes them. *)
(***************************************************************************)
NoOp == [op |-> "none"]

StoreIdle ==
    /\ backend = "" /\ table = {} /\ saved = <<>> /\ ret = NoOp

InitStore ==
    /\ backend \in Backends
    /\ table = {}
    /\ saved = [k \in StoreKeys |-> NoOp]
    /\ ret = NoOp

\* whether the table holds a record under the key
Stored(key) ==
    IF backend = "sqlite" THEN \E row \in table : row[1] = key
    ELSE \E item \in table : item[StoreHashKey] = key

\* record.save()
Save(record) ==
    LET out == CASE backend = "dynamodb" -> DynamoSave(table, record)
                 [] backend = "sqlite" -> SqliteSave(table, record)
                 [] backend = "app" -> AppSave(table, record)
    IN  /\ ModelValidate(record) = record
        /\ table' = out.table
        /\ saved' = [saved EXCEPT ![record[StoreHashKey]] = [op |-> "save", record |-> record]]
        /\ ret' = [op |-> "save", key |-> record[StoreHashKey], existed |-> Stored(record[StoreHashKey]),
                   result |-> out.result]
        /\ UNCHANGED backend
        /\ UNCHANGED <<codecVars, queryVars, versionedVars, schemaVars, batchVars, sqlVars, compileVars, plannerVars, writerVars, iterVars>>

\* cls.get(key)
Get(key) ==
    LET got == CASE backend = "dynamodb" -> DynamoGet(table, key)
                 [] backend = "sqlite" -> SqliteGet(table, key)
                 [] backend = "app" -> AppGet(table, key)
    IN  /\ ret' = [op |-> "get", key |-> key,
                   result |-> IF got = DoesNotExist \/ backend = "app" THEN got ELSE ModelValidate(got)]
        /\ UNCHANGED <<backend, table, saved>>
        /\ UNCHANGED <<codecVars, queryVars, versionedVars, schemaVars, batchVars, sqlVars, compileVars, plannerVars, writerVars, iterVars>>

\* cls.delete(key); the models of app/models have no delete
Delete(key) ==
    /\ backend # "app"
    /\ table' = IF backend = "dynamodb" THEN DeleteItem(table, StoreHashKey, key)
                ELSE SqliteDelete(table, key)
    /\ saved' = [saved EXCEPT ![key] = [op |-> "delete"]]
    /\ ret' = [op |-> "delete", key |-> key]
    /\ UNCHANGED backend
    /\ UNCHANGED <<codecVars, queryVars, versionedVars, schemaVars, batchVars, sqlVars, compileVars, plannerVars, writerVars, iterVars>>

NextStore ==
    \/ \E record \in StoreRecords : Save(record)
    \/ \E key \in StoreKeys : Get(key)
    \/ \E key \in StoreKeys : Delete(key)
(***************************************************************************)
(* app/models: records with a revision.  A UUID is numbered by the call of *)
(* uuid4 that made it; UUID(0) is a UUID that uuid4 never hands out.       *)
(***************************************************************************)
MaxRev == 3          \* uuid4 is called at most MaxRev times

UUID(n) == [t |-> "UUID", n |-> n]
ForeignUUID == UUID(0)
IsUUID(v) == v.t = "UUID"
\* str(uuid), and the UUID pydantic parses from it
StrUUID(u) == PyStr(<<"u">> \o NatText(u.n))
ParseUUID(s) == UUID(NatVal(Tail(s.s)))

\* Python's "a and b": a when a is falsy, else b.  A boto3 condition is truthy.
PyAnd(a, b) == IF a = Value(PyBool(FALSE)) \/ a = Value(None) THEN a ELSE b

\* build_update_condition
BuildUpdateCondition(hash_key, key_value) == CallMethod(Key(hash_key), "eq", Value(key_value))

\* faulty variants: the revision is not compared; the creation does not ask for its absence
BuildUpdateConditionRevisionUnchecked(hash_key, key_value, revision, field, value, allow_create) ==
    LET condition == BuildUpdateCondition(hash_key, key_value)
    IN  IF IsUUID(revision) THEN condition
        ELSE IF allow_create THEN PyAnd(condition, CallMethod(Attr("revision"), "not_exists", Value(None)))
        ELSE Value(PyBool(FALSE))

BuildUpdateConditionCreateUnguarded(hash_key, key_value, revision, field, value, allow_create) ==
    LET condition == BuildUpdateCondition(hash_key, key_value)
        attr == Attr("revision")
    IN  IF IsUUID(revision) THEN PyAnd(condition, CallMethod(attr, "eq", Value(StrUUID(revision))))
        ELSE condition

\* build_update_condition_with_revision; a field that is not given (None) is ""
BuildUpdateConditionWithRevision(hash_key, key_value, revision, field, value, allow_create) ==
    LET condition == BuildUpdateCondition(hash_key, key_value)
        attr == Attr("revision")
        with_revision == PyAnd(condition, CallMethod(attr, "eq", Value(StrUUID(revision))))
    IN  IF IsUUID(revision)
        THEN IF field # "" /\ value # None
             THEN PyAnd(with_revision, CallMethod(Attr(field), "ne", Value(value)))
             ELSE with_revision
        ELSE IF allow_create THEN PyAnd(condition, CallMethod(attr, "not_exists", Value(None)))
        ELSE Value(PyBool(FALSE))

(* table.put_item(Item=data, ConditionExpression=condition): the condition *)
(* is evaluated on the stored item with the key of data, or on an item     *)
(* without attributes when there is none.                                  *)
ConditionalPutItem(tbl, hash_key, data, condition) ==
    LET found == GetItem(tbl, hash_key, data[hash_key])
        existing == IF found = {} THEN <<>> ELSE CHOOSE i \in found : TRUE
    IN  IF ~IsCondition(condition) THEN [error |-> "ParamValidationError", table |-> tbl]
        ELSE IF Holds(condition, existing) THEN [error |-> "", table |-> PutItem(tbl, hash_key, data)]
        ELSE [error |-> "ConditionalCheckFailedException", table |-> tbl]

OutOfDateMsg == "Provided revision is out of date"
MustProvideMsg == "Must provide a revision"

(* VersionedBaseModel.save on the instance self, uuid4() returning         *)
(* new_revision: the table and the instance afterwards, what was returned  *)
(* (None when the call raised) and the exception raised, the message of a  *)
(* RevisionMismatch or the error code of another ClientError.              *)
VersionedSave(tbl, self, new_revision) ==
    LET hash_key == StoreHashKey
        old_revision == self.revision
        data == [name |-> self.name, value |-> self.value, revision |-> StrUUID(new_revision)]
        condition == BuildUpdateConditionWithRevision(hash_key, self[hash_key], old_revision,
                                                      "", None, TRUE)
        res == ConditionalPutItem(tbl, hash_key, data, condition)
    IN  IF res.error = ""
        THEN [table |-> res.table,
              self |-> IF HTTPStatusCode = 200 THEN [self EXCEPT !.revision = new_revision] ELSE self,
              result |-> PyBool(old_revision = None), raised |-> ""]
        ELSE IF res.error = "ConditionalCheckFailedException"
        THEN [table |-> tbl, self |-> self, result |-> None,
              raised |-> IF old_revision # None THEN OutOfDateMsg ELSE MustProvideMsg]
        ELSE [table |-> tbl, self |-> self, result |-> None, raised |-> res.error]

(***************************************************************************)
(* SpecVersioned: a caller holds a model instance, builds it from input,   *)
(* loads it from the table, and saves it.                                  *)
(***************************************************************************)
ObjIds == {"x"}
NoObject == [name |-> None, value |-> None, revision |-> None]
VersionedValues == {PyInt(1), PyInt(2)}

VersionedIdle ==
    /\ vtable = {} /\ objs = <<>> /\ nextRev = 0 /\ vlog = <<>>

InitVersioned ==
    /\ vtable = {}
    /\ objs = [o \in ObjIds |-> NoObject]
    /\ nextRev = 1
    /\ vlog = <<>>

\* the revisions uuid4 has handed out so far
Issued == {UUID(n) : n \in 1..(nextRev - 1)}

\* o = Model(name=..., value=..., revision=...)
Construct(o, name, value, revision) ==
    /\ objs' = [objs EXCEPT ![o] = [name |-> name, value |-> value, revision |-> revision]]
    /\ UNCHANGED <<vtable, nextRev, vlog>>
    /\ UNCHANGED <<codecVars, queryVars, storeVars, schemaVars, batchVars, sqlVars, compileVars, plannerVars, writerVars, iterVars>>

\* o = Model.get(key), for a key the table holds
VersionedGet(o, key) ==
    /\ GetItem(vtable, StoreHashKey, key) # {}
    /\ LET item == CHOOSE i \in GetItem(vtable, StoreHashKey, key) : TRUE
       IN  objs' = [objs EXCEPT ![o] = [name |-> item.name, value |-> item.value,
                                        revision |-> ParseUUID(item.revision)]]
    /\ UNCHANGED <<vtable, nextRev, vlog>>
    /\ UNCHANGED <<codecVars, queryVars, storeVars, schemaVars, batchVars, sqlVars, compileVars, plannerVars, writerVars, iterVars>>

\* o.save()
SaveVersioned(o) ==
    /\ objs[o] # NoObject
    /\ nextRev <= MaxRev
    /\ LET out == VersionedSave(vtable, objs[o], UUID(nextRev))
           entry == [obj |-> o, name |-> objs[o].name, value |-> objs[o].value,
                     token |-> objs[o].revision,
                     before |-> GetItem(vtable, StoreHashKey, objs[o].name),
                     after |-> GetItem(out.table, StoreHashKey, objs[o].name),
                     new_revision |-> UUID(nextRev),
                     self_revision |-> out.self.revision,
                     result |-> out.result, raised |-> out.raised]
       IN  /\ vtable' = out.table
           /\ objs' = [objs EXCEPT ![o] = out.self]
           /\ vlog' = IF vlog = <<>> THEN <<entry>> ELSE <<vlog[Len(vlog)], entry>>
    /\ nextRev' = nextRev + 1
    /\ UNCHANGED <<codecVars, queryVars, storeVars, schemaVars, batchVars, sqlVars, compileVars, plannerVars, writerVars, iterVars>>

NextVersioned ==
    \/ \E o \in ObjIds, name \in StoreKeys, value \in VersionedValues,
          revision \in {None, ForeignUUID} \cup Issued :
            Construct(o, name, value, revision)
    \/ \E o \in ObjIds, key \in StoreKeys : VersionedGet(o, key)
    \/ \E o \in ObjIds : SaveVersioned(o)

(***************************************************************************)
(* VersionedBaseModel.update_value: one attribute of a stored item is set  *)
(* by a conditional update_item.                                           *)
(***************************************************************************)
UpdateFields == {"value"}
UpdateValues == VersionedValues \cup {None}

(* table.update_item(Key={hash_key: key}, UpdateExpression="SET revision   *)
(* = :nr, #f = :v", ConditionExpression=condition): the condition is       *)
(* evaluated on the stored item with that key, or on an item without       *)
(* attributes when there is none; the update then sets the two attributes  *)
(* of the stored item, or makes an item of the key and the two attributes. *)
UpdateItem(tbl, hash_key, key, field, value, new_revision, condition) ==
    LET found == GetItem(tbl, hash_key, key)
        existing == IF found = {} THEN <<>> ELSE CHOOSE i \in found : TRUE
        kept == IF found = {} THEN {hash_key} ELSE DOMAIN existing
        updated == [a \in kept \cup {"revision", field} |->
                        IF a = field THEN value
                        ELSE IF a = "revision" THEN StrUUID(new_revision)
                        ELSE IF a = hash_key THEN key
                        ELSE existing[a]]
    IN  IF ~IsCondition(condition) THEN [error |-> "ParamValidationError", table |-> tbl]
        ELSE IF Holds(condition, existing) THEN [error |-> "", table |-> (tbl \ found) \cup {updated}]
        ELSE [error |-> "ConditionalCheckFailedException", table |-> tbl]

\* faulty variant: a rejected write is always reported as a mismatch
UpdateValueNoReread(tbl, key, field, value, revision, new_revision) ==
    LET hash_key == StoreHashKey
        condition == BuildUpdateConditionWithRevision(hash_key, key, revision, field, value, FALSE)
        res == UpdateItem(tbl, hash_key, key, field, value, new_revision, condition)
    IN  IF res.error = ""
        THEN [condition |-> condition, table |-> res.table, rejected |-> FALSE,
              result |-> new_revision, raised |-> ""]
        ELSE IF res.error = "ConditionalCheckFailedException"
        THEN [condition |-> condition, table |-> tbl, rejected |-> TRUE, result |-> None,
              raised |-> IF revision # None THEN OutOfDateMsg ELSE MustProvideMsg]
        ELSE [condition |-> condition, table |-> tbl, rejected |-> FALSE,
              result |-> None, raised |-> res.error]

(* update_value(key, field, value, revision), uuid4() returning            *)
(* new_revision: the condition handed to update_item, the table            *)
(* afterwards, what was returned (None when the call raised) and the       *)
(* exception raised: the message of a RevisionMismatch, "DoesNotExist", or *)
(* the name of another error.                                              *)
UpdateValue(tbl, key, field, value, revision, new_revision) ==
    LET hash_key == StoreHashKey
        condition == BuildUpdateConditionWithRevision(hash_key, key, revision, field, value, FALSE)
        res == UpdateItem(tbl, hash_key, key, field, value, new_revision, condition)
        found == GetItem(tbl, hash_key, key)
        item == CHOOSE i \in found : TRUE
    IN  IF res.error = ""
        THEN [condition |-> condition, table |-> res.table, rejected |-> FALSE,
              result |-> IF HTTPStatusCode = 200 THEN new_revision ELSE None, raised |-> ""]
        ELSE IF res.error = "ConditionalCheckFailedException"
        THEN IF found = {}
             THEN [condition |-> condition, table |-> tbl, rejected |-> TRUE,
                   result |-> None, raised |-> "DoesNotExist"]
             ELSE IF item[field] = value
             THEN [condition |-> condition, table |-> tbl, rejected |-> TRUE,
                   result |-> revision, raised |-> ""]
             ELSE [condition |-> condition, table |-> tbl, rejected |-> TRUE, result |-> None,
                   raised |-> IF revision # None THEN OutOfDateMsg ELSE MustProvideMsg]
        ELSE [condition |-> condition, table |-> tbl, rejected |-> FALSE,
              result |-> None, raised |-> res.error]

(***************************************************************************)
(* SpecUpdate: callers save new instances and update single values of the  *)
(* stored items.  vlog holds the last call.                                *)
(***************************************************************************)
InitUpdate ==
    /\ vtable = {}
    /\ objs = <<>>
    /\ nextRev = 1
    /\ vlog = <<>>

\* Model(name=..., value=..., revision=...).save()
SaveInstance(name, value, revision) ==
    /\ nextRev <= MaxRev
    /\ LET self == [name |-> name, value |-> value, revision |-> revision]
           out == VersionedSave(vtable, self, UUID(nextRev))
       IN  /\ vtable' = out.table
           /\ vlog' = <<[op |-> "save", key |-> name, field |-> "", value |-> value,
                         token |-> revision, allow_create |-> TRUE,
                         condition |-> BuildUpdateConditionWithRevision(StoreHashKey, name, revision,
                                                                        "", None, TRUE),
                         before |-> GetItem(vtable, StoreHashKey, name),
                         after |-> GetItem(out.table, StoreHashKey, name),
                         others |-> {i \in vtable : i.name # name} = {i \in out.table : i.name # name},
                         rejected |-> out.raised \in {OutOfDateMsg, MustProvideMsg},
                         new_revision |-> UUID(nextRev),
                         result |-> out.result, raised |-> out.raised]>>
    /\ nextRev' = nextRev + 1
    /\ UNCHANGED objs
    /\ UNCHANGED <<codecVars, queryVars, storeVars, schemaVars, batchVars, sqlVars, compileVars, plannerVars, writerVars, iterVars>>

\* Model.update_value(key, field, value, revision)
CallUpdateValue(key, field, value, revision) ==
    /\ nextRev <= MaxRev
    /\ LET out == UpdateValue(vtable, key, field, value, revision, UUID(nextRev))
       IN  /\ vtable' = out.table
           /\ vlog' = <<[op |-> "update_value", key |-> key, field |-> field, value |-> value,
                         token |-> revision, allow_create |-> FALSE,
                         condition |-> out.condition,
                         before |-> GetItem(vtable, StoreHashKey, key),
                         after |-> GetItem(out.table, StoreHashKey, key),
                         others |-> {i \in vtable : i.name # key} = {i \in out.table : i.name # key},
                         rejected |-> out.rejected,
                         new_revision |-> UUID(nextRev),
                         result |-> out.result, raised |-> out.raised]>>
    /\ nextRev' = nextRev + 1
    /\ UNCHANGED objs
    /\ UNCHANGED <<codecVars, queryVars, storeVars, schemaVars, batchVars, sqlVars, compileVars, plannerVars, writerVars, iterVars>>

NextUpdate ==
    \/ \E name \in StoreKeys, value \in VersionedValues, revision \in {None, ForeignUUID} \cup Issued :
            SaveInstance(name, value, revision)
    \/ \E key \in StoreKeys, field \in UpdateFields, value \in UpdateValues,
          revision \in {None, ForeignUUID} \cup Issued :
            CallUpdateValue(key, field, value, revision)
(***************************************************************************)
(* initialize() and exists() of the DynamoDB and the SQLite backend, for   *)
(* the hash-key-only record type of SpecStore.                             *)
(***************************************************************************)
SchemaBackends == {"dynamodb", "sqlite"}

\* a database without the table
NoTable == [exists |-> FALSE]
TableWith(definition, rows) == [exists |-> TRUE, definition |-> definition, rows |-> rows]

(* The table definition initialize() asks for: the key schema of the       *)
(* DynamoDB table, the columns and the primary key of the SQLite table.    *)
TableSchema(b) ==
    IF b = "dynamodb" THEN [KeySchema |-> <<StoreHashKey>>]
    ELSE [fields |-> StoreFields, primary |-> StoreHashKey]

\* a table of the same name made by other means, with another definition
OtherSchema(b) ==
    IF b = "dynamodb" THEN [KeySchema |-> <<"id">>]
    ELSE [fields |-> <<"id">>, primary |-> "id"]

(* dynamodb.create_table: the service creates the table, or answers        *)
(* ResourceInUseException (a ClientError) when a table of that name exists.*)
CreateTable(db, definition) ==
    IF db.exists THEN [db |-> db, result |-> Raise("ResourceInUseException")]
    ELSE [db |-> TableWith(definition, {}), result |-> None]

\* conn.execute("CREATE TABLE IF NOT EXISTS ..."): nothing happens when the table exists
CreateTableIfNotExists(db, definition) ==
    IF db.exists THEN [db |-> db, result |-> None]
    ELSE [db |-> TableWith(definition, {}), result |-> None]

\* Backend.initialize of the DynamoDB backend: create_table, then wait_until_exists
DynamoInitialize(db) == CreateTable(db, TableSchema("dynamodb"))

\* Backend.initialize of the SQLite backend
SqliteInitialize(db) == CreateTableIfNotExists(db, TableSchema("sqlite"))

\* Backend.exists: table_status == "ACTIVE" (a ClientError is False); a row of sqlite_master
BackendExists(b, db) == db.exists

SchemaIdle == sBackend = "" /\ sDb = NoTable /\ sRet = NoOp

InitSchema ==
    /\ sBackend \in SchemaBackends
    /\ sDb = NoTable
    /\ sRet = NoOp

\* cls.initialize()
Initialize ==
    LET out == IF sBackend = "dynamodb" THEN DynamoInitialize(sDb) ELSE SqliteInitialize(sDb)
    IN  /\ sDb' = out.db
        /\ sRet' = [op |-> "initialize", before |-> sDb, result |-> out.result]
        /\ UNCHANGED sBackend
        /\ UNCHANGED <<codecVars, queryVars, storeVars, versionedVars, batchVars, sqlVars, compileVars, plannerVars, writerVars, iterVars>>

\* cls.exists()
Exists ==
    /\ sRet' = [op |-> "exists", before |-> sDb, result |-> PyBool(BackendExists(sBackend, sDb))]
    /\ UNCHANGED <<sBackend, sDb>>
    /\ UNCHANGED <<codecVars, queryVars, storeVars, versionedVars, batchVars, sqlVars, compileVars, plannerVars, writerVars, iterVars>>

\* record.save() into the table initialize() made
SchemaSave(record) ==
    /\ sDb.exists /\ sDb.definition = TableSchema(sBackend)
    /\ sDb' = [sDb EXCEPT !.rows = IF sBackend = "dynamodb" THEN DynamoSave(sDb.rows, record).table
                                   ELSE SqliteSave(sDb.rows, record).table]
    /\ sRet' = [op |-> "save", before |-> sDb, result |-> PyBool(TRUE)]
    /\ UNCHANGED sBackend
    /\ UNCHANGED <<codecVars, queryVars, storeVars, versionedVars, batchVars, sqlVars, compileVars, plannerVars, writerVars, iterVars>>

\* the table is made by other means, with another definition
CreateOther ==
    /\ ~sDb.exists
    /\ sDb' = TableWith(OtherSchema(sBackend), {})
    /\ sRet' = [op |-> "create", before |-> sDb, result |-> None]
    /\ UNCHANGED sBackend
    /\ UNCHANGED <<codecVars, queryVars, storeVars, versionedVars, batchVars, sqlVars, compileVars, plannerVars, writerVars, iterVars>>

\* the table is dropped
DropTable ==
    /\ sDb.exists
    /\ sDb' = NoTable
    /\ sRet' = [op |-> "drop", before |-> sDb, result |-> None]
    /\ UNCHANGED sBackend
    /\ UNCHANGED <<codecVars, queryVars, storeVars, versionedVars, batchVars, sqlVars, compileVars, plannerVars, writerVars, iterVars>>

NextSchema ==
    \/ Initialize
    \/ Exists
    \/ \E record \in StoreRecords : SchemaSave(record)
    \/ CreateOther
    \/ DropTable

(***************************************************************************)
(* batch_save of the DynamoDB backend.                                     *)
(***************************************************************************)
MaxItems == 60

\* the size of a chunk in batch_save
ChunkSize == 25

\* the i-th record of a list of records
BatchRecord(i) == [id |-> PyInt(i)]

\* chunk_list(lst, size): lst[i : i + size] for i = 0, size, 2 * size, ...
ChunkList(lst, size) ==
    [k \in 1..((Len(lst) + size - 1) \div size) |->
        SubSeq(lst, (k - 1) * size + 1, IF k * size < Len(lst) THEN k * size ELSE Len(lst))]

\* concatenation of a list of lists
RECURSIVE Flatten(_)
Flatten(lists) == IF lists = <<>> THEN <<>> ELSE Head(lists) \o Flatten(Tail(lists))

(* The request list batch_save builds: chunk after chunk, the serialized   *)
(* items of the chunk are appended to the one list request_items[table].   *)
RequestItems(items) ==
    Flatten([k \in DOMAIN ChunkList(items, ChunkSize) |->
                [j \in DOMAIN ChunkList(items, ChunkSize)[k] |->
                    [PutRequest |-> [Item |-> SerializeRecord(ChunkList(items, ChunkSize)[k][j])]]]])

(* dynamodb.batch_write_item(RequestItems=...): the service takes between  *)
(* 1 and 25 requests in a call and answers a ClientError otherwise.        *)
BatchWriteItem(requests) ==
    IF Len(requests) \in 1..25 THEN [t |-> "response", UnprocessedItems |-> PyDict({})] ELSE Raise("ClientError")

\* Backend.batch_save: the calls issued and the value returned or exception raised
BatchSaveOf(items) ==
    LET response == BatchWriteItem(RequestItems(items))
    IN  [calls |-> <<RequestItems(items)>>,
         result |-> IF IsRaise(response) THEN response ELSE response.UnprocessedItems]

BatchIdle == bItems = <<>> /\ bCalls = <<>> /\ bRet = NotRun

InitBatch ==
    /\ \E n \in 0..MaxItems : bItems = [i \in 1..n |-> BatchRecord(i)]
    /\ bCalls = <<>>
    /\ bRet = NotRun

\* cls.batch_save(items)
BatchSave ==
    /\ bRet = NotRun
    /\ bCalls' = BatchSaveOf(bItems).calls
    /\ bRet' = BatchSaveOf(bItems).result
    /\ UNCHANGED bItems
    /\ UNCHANGED <<codecVars, queryVars, storeVars, versionedVars, schemaVars, sqlVars, compileVars, plannerVars, writerVars, iterVars>>

NextBatch == BatchSave

(***************************************************************************)
(* The SQLite backend's expression compiler.  An SQL text is the sequence  *)
(* of its pieces: column names, operators, "?", parentheses and the single *)
(* spaces the format strings put between them.                             *)
(***************************************************************************)
StringLit(chars) == [kind |-> "string", text |-> chars]    \* StringExpression

SQLITE_NATIVE_TYPES == {"int", "float", "bool", "str", "datetime"}

\* python_type_name.lower()
Lower(name) == CASE name = "Decimal" -> "decimal" [] OTHER -> name

(* self._columns of the record type of the tests: for each declared field  *)
(* the name of its type (of the type's __origin__ for Dict and List).      *)
Columns ==
    [id |-> "int", value |-> "int", name |-> "str", total |-> "float", timestamp |-> "datetime",
     sigfig |-> "Decimal", enabled |-> "bool", data |-> "dict", items |-> "list"]

\* faulty variant: every declared field counts as native
SqliteNativeAlways(field_name) == TRUE

\* ColumnMetaData.sqlite_native
SqliteNative(field_name) == Lower(Columns[field_name]) \in SQLITE_NATIVE_TYPES

\* a pair (sql, params) the compiler returns; sql is None for a null
Sql(text, params) == [t |-> "sql", none |-> FALSE, text |-> text, params |-> params]
SqlNull == [t |-> "sql", none |-> TRUE, text |-> <<"None">>, params |-> <<>>]

\* s.strip('"')
RECURSIVE StripQuotes(_)
StripQuotes(s) ==
    IF s # <<>> /\ Head(s) = "\"" THEN StripQuotes(Tail(s))
    ELSE IF s # <<>> /\ s[Len(s)] = "\"" THEN StripQuotes(SubSeq(s, 1, Len(s) - 1))
    ELSE s

\* tuple(["%" + member_params[0].strip('"') + "%"])
CleanMemberParams(member_params) ==
    IF member_params = <<>> THEN Raise("IndexError")
    ELSE IF member_params[1].t # "str" THEN Raise("AttributeError")
    ELSE [t |-> "tuple", l |-> <<PyStr(<<"%">> \o StripQuotes(member_params[1].s) \o <<"%">>)>>]

\* dict(eq="=", ne="!=", lt="<", gt=">")[expr.type], and the dict used when right is None
ComparisonOp(type, right_is_none) ==
    IF right_is_none
    THEN CASE type = "eq" -> "IS" [] type = "ne" -> "IS NOT" [] OTHER -> "KeyError"
    ELSE CASE type = "eq" -> "=" [] type = "ne" -> "!=" [] type = "lt" -> "<" [] type = "gt" -> ">"
           [] OTHER -> "KeyError"

\* l_params + r_params
JoinParams(l_params, r_params) == l_params \o r_params

(* Backend._expression_to_condition.  A comparison with <, >, <= or >= is  *)
(* an ArithmeticComparisonExpression, a subclass of ComparisonExpression,  *)
(* so the isinstance test for ComparisonExpression takes it.               *)
RECURSIVE SqlExpressionToCondition(_)
SqlExpressionToCondition(expr) ==
    CASE expr.kind = "logic" ->
            LET left == SqlExpressionToCondition(expr.left)
                right == SqlExpressionToCondition(expr.right)
                op == IF expr.type = "and" THEN "AND" ELSE "OR"
            IN  IF IsRaise(left) THEN left
                ELSE IF IsRaise(right) THEN right
                ELSE Sql(<<"(">> \o left.text \o <<" ", op, " ">> \o right.text \o <<")">>,
                         JoinParams(left.params, right.params))
      [] expr.kind = "comparison" ->
            LET left == SqlExpressionToCondition(expr.left)
                right == SqlExpressionToCondition(expr.right)
            IN  IF IsRaise(left) THEN left
                ELSE IF IsRaise(right) THEN right
                ELSE IF ComparisonOp(expr.type, FALSE) = "KeyError" THEN Raise("KeyError")
                ELSE IF ComparisonOp(expr.type, right.none) = "KeyError" THEN Raise("KeyError")
                ELSE Sql(left.text \o <<" ", ComparisonOp(expr.type, right.none), " ">>
                            \o (IF right.none THEN <<"NULL">> ELSE right.text),
                         JoinParams(left.params, right.params))
      [] expr.kind = "contains" ->
            LET container == SqlExpressionToCondition(expr.container)
                member == SqlExpressionToCondition(expr.member)
            IN  IF IsRaise(container) THEN container
                ELSE IF IsRaise(member) THEN member
                ELSE IF IsRaise(CleanMemberParams(member.params)) THEN CleanMemberParams(member.params)
                ELSE Sql(container.text \o <<" ", "like", " ">> \o member.text,
                         container.params \o CleanMemberParams(member.params).l)
      [] expr.kind = "symbol" ->
            IF expr.name = "null" THEN SqlNull
            ELSE IF expr.name \notin DOMAIN Columns THEN Raise("SyntaxError")
            ELSE IF ~SqliteNative(expr.name) THEN Raise("SyntaxError")
            ELSE Sql(<<expr.name>>, <<>>)
      [] expr.kind = "null" -> SqlNull
      [] expr.kind = "string" -> Sql(<<"?">>, <<PyStr(expr.text)>>)
      [] expr.kind = "float" ->
            Sql(<<"?">>, <<IF expr.value % 10 = 0 THEN PyInt(expr.value \div 10) ELSE PyFloat(expr.value)>>)
      [] OTHER -> Raise("NotImplementedError")

\* Backend._rule_to_sqlite_expression
RuleToSqliteExpression(rule) == SqlExpressionToCondition(rule)

(***************************************************************************)
(* SpecSql: the expression of a Rule is compiled.                          *)
(***************************************************************************)
SqlSymbols == {Symbol(n) : n \in {"id", "name", "items", "nonexistent", "null"}}
SqlLiterals == {FloatLit(30), FloatLit(25), StringLit(<<"o">>), StringLit(<<"\"", "o", "\"">>), NullLit}
SqlCmpTypes == {"eq", "ne", "lt", "gt", "le", "ge"}
SqlComparisons ==
    {Comparison(type, left, right) :
        type \in SqlCmpTypes, left \in SqlSymbols \cup {FloatLit(30)}, right \in SqlLiterals \cup {Symbol("id")}}
\* the comparisons that are combined into larger expressions
SqlOperands ==
    {Comparison("eq", Symbol("id"), FloatLit(30)), Comparison("gt", Symbol("id"), FloatLit(25)),
     Comparison("eq", Symbol("name"), StringLit(<<"o">>)), Comparison("ne", Symbol("name"), NullLit),
     Comparison("le", Symbol("id"), FloatLit(30)), Comparison("eq", Symbol("items"), FloatLit(30)),
     Comparison("eq", Symbol("nonexistent"), FloatLit(30)), Comparison("eq", Symbol("null"), FloatLit(30)),
     Contains(Symbol("name"), StringLit(<<"o">>))}
SqlLogics == {Logic(type, left, right) : type \in {"and", "or"}, left, right \in SqlOperands}
SqlNested ==
    {Logic(type, Logic("and", Comparison("eq", Symbol("id"), FloatLit(30)), left), right) :
        type \in {"and", "or"}, left, right \in SqlOperands}
SqlContains ==
    {Contains(container, member) :
        container \in {Symbol("name"), Symbol("items"), StringLit(<<"o">>)},
        member \in SqlLiterals \cup SqlSymbols \cup SqlOperands
                    \cup {Logic("and", Comparison("eq", Symbol("name"), StringLit(<<"o">>)),
                                       Comparison("ne", Symbol("name"), StringLit(<<"\"", "o", "\"">>)))}}
SqlExprs == SqlSymbols \cup SqlLiterals \cup SqlComparisons \cup SqlLogics \cup SqlNested \cup SqlContains

SqlIdle == sqlExpr = NoExpr /\ sqlOut = NotRun

InitSql ==
    /\ sqlExpr \in SqlExprs
    /\ sqlOut = NotRun

\* Model.__backend__._rule_to_sqlite_expression(Rule(...))
Compile ==
    /\ sqlOut = NotRun
    /\ sqlOut' = RuleToSqliteExpression(sqlExpr)
    /\ UNCHANGED sqlExpr
    /\ UNCHANGED <<codecVars, queryVars, storeVars, versionedVars, schemaVars, batchVars, compileVars, plannerVars, writerVars, iterVars>>

NextSql == Compile

(***************************************************************************)
(* SpecCompile: the expression of a Rule is compiled for DynamoDB, with a  *)
(* set of names that are compiled as key references.                       *)
(***************************************************************************)
CompileNames == {"name", "id", "timestamp"}
CompileRights == {NullLit, FloatLit(10), FloatLit(15)}
CompileComparisons ==
    {Comparison(type, Symbol(a), right) : type \in CmpTypes, a \in CompileNames, right \in CompileRights}
\* the comparisons that are combined into larger expressions
CompileOperands ==
    {Comparison("eq", Symbol(a), FloatLit(10)) : a \in CompileNames}
        \cup {Comparison("ge", Symbol("id"), FloatLit(15)), Comparison("ne", Symbol("timestamp"), NullLit),
              Contains(Symbol("timestamp"), FloatLit(10)), Contains(Symbol("name"), Symbol("id"))}
CompileExprs ==
    CompileComparisons \cup CompileOperands
        \cup {Logic(type, left, right) : type \in {"and", "or"}, left, right \in CompileOperands}

CompileIdle == kExpr = NoExpr /\ kKeys = {} /\ kOut = NotRun

InitCompile ==
    /\ kExpr \in CompileExprs
    /\ kKeys \in SUBSET {"name", "id"}
    /\ kOut = NotRun

\* rule_to_boto_expression(rule, keys)
CompileBoto ==
    /\ kOut = NotRun
    /\ kOut' = RuleToBotoExpression(kExpr, kKeys)
    /\ UNCHANGED <<kExpr, kKeys>>
    /\ UNCHANGED <<codecVars, queryVars, storeVars, versionedVars, schemaVars, batchVars, sqlVars, plannerVars, writerVars, iterVars>>

NextCompile == CompileBoto


(***************************************************************************)
(* SpecCompileLit: comparisons of a field with a boolean, datetime or      *)
(* string literal are compiled for DynamoDB.                               *)
(***************************************************************************)
LitNames == {"name", "enabled", "timestamp", "expires"}
LitRights ==
    {BoolLit(TRUE), BoolLit(FALSE), StringLit(<<"a">>),
     DatetimeLit(PyDatetime(1, FALSE, 0)), DatetimeLit(PyDatetime(2, TRUE, 1))}
LitExprs == {Comparison(type, Symbol(a), right) : type \in CmpTypes, a \in LitNames, right \in LitRights}

InitCompileLit ==
    /\ kExpr \in LitExprs
    /\ kKeys \in SUBSET {"name"}
    /\ kOut = NotRun

\* rule_to_boto_expression(rule, keys)
CompileLit ==
    /\ kOut = NotRun
    /\ kOut' = RuleToBotoExpression(kExpr, kKeys)
    /\ UNCHANGED <<kExpr, kKeys>>
    /\ UNCHANGED <<codecVars, queryVars, storeVars, versionedVars, schemaVars, batchVars, sqlVars, plannerVars, writerVars, iterVars>>

NextCompileLit == CompileLit
(***************************************************************************)
(* SpecPlanner: _get_best_index is called with a set of keys used, for the *)
(* record types of the tests and for record types with hash key h, with or *)
(* without the range key r, and up to two global indexes.                  *)
(***************************************************************************)
IndexTuples == {<<"a">>, <<"h", "a">>, <<"a", "h">>, <<"a", "b">>}

PlannerConfig(range_key, global_indexes) ==
    [title |-> "planned", hash_key |-> "h", range_key |-> range_key,
     local_indexes |-> <<>>, global_indexes |-> global_indexes,
     fields |-> {"h", "r", "a", "b"}]

PlannerConfigs ==
    Configs
        \cup {PlannerConfig(range_key, <<>>) : range_key \in {"", "r"}}
        \cup {PlannerConfig(range_key, << <<"g1", k1>> >>) : range_key \in {"", "r"}, k1 \in IndexTuples}
        \cup {PlannerConfig(range_key, << <<"g1", ks[1]>>, <<"g2", ks[2]>> >>) :
                range_key \in {"", "r"}, ks \in {p \in IndexTuples \X IndexTuples : p[1] # p[2]}}

NoPlan == [raised |-> FALSE, name |-> "", run |-> FALSE]

PlannerIdle == pCfg = [title |-> ""] /\ pKeys = {} /\ pOut = NoPlan

InitPlanner ==
    /\ pCfg \in PlannerConfigs
    /\ pKeys \in SUBSET PossibleKeys(pCfg)
    /\ pOut = NoPlan

\* self._get_best_index(keys_used)
Plan ==
    /\ ~pOut.run
    /\ pOut' = [raised |-> GetBestIndex(pCfg, pKeys).raised, name |-> GetBestIndex(pCfg, pKeys).name,
                run |-> TRUE]
    /\ UNCHANGED <<pCfg, pKeys>>
    /\ UNCHANGED <<codecVars, queryVars, storeVars, versionedVars, schemaVars, batchVars, sqlVars, compileVars, writerVars, iterVars>>

NextPlanner == Plan


(***************************************************************************)
(* Two callers on one table.  A save call is split where it reaches the    *)
(* table: what a call computes between two statements is its own, and is   *)
(* taken together with the statement before it.                            *)
(***************************************************************************)
Procs == {"p", "q"}
MaxCalls == 3        \* save calls begun in one behaviour

WriterIdle == wTable = {} /\ wProc = <<>> /\ wCount = 0
Resting == [pc |-> "idle"]

\* rule.matches(item) for the comparison of a field with a number
RuleMatches(rule, item) ==
    LET a == Tenths(item[rule.left.name])
        b == rule.right.value
    IN  CASE rule.type = "eq" -> a = b
          [] rule.type = "ne" -> a # b
          [] rule.type = "lt" -> a < b
          [] rule.type = "gt" -> a > b
          [] rule.type = "le" -> a <= b
          [] rule.type = "ge" -> a >= b

\* a row satisfies the WHERE clause "column op ?" with its parameter
WhereHolds(sql, row) ==
    LET a == Tenths(row[CHOOSE i \in 1..Len(StoreFields) : StoreFields[i] = sql.text[1]])
        b == Tenths(sql.params[1])
    IN  CASE sql.text[3] = "=" -> a = b
          [] sql.text[3] = "!=" -> a # b
          [] sql.text[3] = "<" -> a < b
          [] sql.text[3] = ">" -> a > b

\* faulty variant: the row of an existing key is replaced
SqlInsertOrReplace(tbl, values) ==
    [error |-> "", table |-> {row \in tbl : row[1] # values[1]} \cup {values}]

(* "insert into t values (...)": the first column is the PRIMARY KEY, and  *)
(* a second row with the same key is an IntegrityError.                    *)
SqlInsert(tbl, values) ==
    IF \E row \in tbl : row[1] = values[1] THEN [error |-> "IntegrityError", table |-> tbl]
    ELSE [error |-> "", table |-> tbl \cup {values}]

\* faulty variant: every selected row takes the values, whatever the keys become
SqlUpdateUnchecked(tbl, values, selected) ==
    [error |-> "", table |-> IF selected = {} THEN tbl ELSE (tbl \ selected) \cup {values}]

(* "UPDATE t SET every column = ? WHERE ...": each selected row takes the  *)
(* values, its key among them.  Two rows with one key are an               *)
(* IntegrityError, and the statement then changes nothing.                 *)
SqlUpdate(tbl, values, selected) ==
    IF selected = {} THEN [error |-> "", table |-> tbl]
    ELSE IF Cardinality(selected) > 1 \/ (\E row \in tbl \ selected : row[1] = values[1])
    THEN [error |-> "IntegrityError", table |-> tbl]
    ELSE [error |-> "", table |-> (tbl \ selected) \cup {values}]

(***************************************************************************)
(* SpecSqliteWriters: Backend.save of the SQLite backend, with or without  *)
(* a condition, by two callers.                                            *)
(***************************************************************************)
WriterItems == {r \in StoreRecords : r.enabled = PyBool(TRUE)}
WriterConditions ==
    {NoExpr, Comparison("eq", Symbol("id"), FloatLit(10)), Comparison("gt", Symbol("id"), FloatLit(0)),
     Comparison("le", Symbol("id"), FloatLit(10))}

SqliteCall(pc, item, condition, path, raised, before) ==
    [pc |-> pc, item |-> item, condition |-> condition, path |-> path, raised |-> raised,
     before |-> before, after |-> wTable']

InitSqliteWriters ==
    /\ wTable = {}
    /\ wProc = [p \in Procs |-> Resting]
    /\ wCount = 0

(* save(item, condition) up to its write: old_item = self.get(key), the    *)
(* test condition.matches(old_item) and the compilation of the condition.  *)
SqliteSaveRead(p, item, condition) ==
    /\ wProc[p].pc \in {"idle", "done"}
    /\ wCount < MaxCalls
    /\ wCount' = wCount + 1
    /\ wTable' = wTable
    /\ LET old_item == SqliteGet(wTable, item[StoreHashKey])
           compiled == RuleToSqliteExpression(condition)
       IN  wProc' = [wProc EXCEPT ![p] =
                IF old_item = DoesNotExist THEN SqliteCall("write", item, condition, "insert", "", wTable)
                ELSE IF condition # NoExpr /\ ~RuleMatches(condition, old_item)
                THEN SqliteCall("done", item, condition, "update", "ConditionCheckFailed", wTable)
                ELSE IF condition # NoExpr /\ IsRaise(compiled)
                THEN SqliteCall("done", item, condition, "update", compiled.exc, wTable)
                ELSE SqliteCall("write", item, condition, "update", "", wTable)]
    /\ UNCHANGED <<codecVars, queryVars, storeVars, versionedVars, schemaVars, batchVars, sqlVars, compileVars, plannerVars, iterVars>>

\* the UPDATE or the INSERT of the call, and its return
SqliteSaveWrite(p) ==
    /\ wProc[p].pc = "write"
    /\ LET call == wProc[p]
           values == RowOf(call.item)
           selected == IF call.condition = NoExpr THEN {row \in wTable : row[1] = call.item[StoreHashKey]}
                       ELSE {row \in wTable : WhereHolds(RuleToSqliteExpression(call.condition), row)}
           res == IF call.path = "insert" THEN SqlInsert(wTable, values)
                  ELSE SqlUpdate(wTable, values, selected)
       IN  /\ wTable' = res.table
           /\ wProc' = [wProc EXCEPT ![p] =
                            SqliteCall("done", call.item, call.condition, call.path, res.error, wTable)]
    /\ UNCHANGED wCount
    /\ UNCHANGED <<codecVars, queryVars, storeVars, versionedVars, schemaVars, batchVars, sqlVars, compileVars, plannerVars, iterVars>>

NextSqliteWriters ==
    \/ \E p \in Procs, item \in WriterItems, condition \in WriterConditions : SqliteSaveRead(p, item, condition)
    \/ \E p \in Procs : SqliteSaveWrite(p)

(***************************************************************************)
(* SpecVersionedWriters: VersionedBaseModel.save by two callers, each on   *)
(* an instance of its own.  wCount counts the calls of uuid4.              *)
(***************************************************************************)
VersionedCall(pc, self, token, new_revision, raised, overlap, before, after) ==
    [pc |-> pc, self |-> self, token |-> token, new_revision |-> new_revision, raised |-> raised,
     overlap |-> overlap, before |-> before, after |-> after]

InitVersionedWriters ==
    /\ wTable = {}
    /\ wProc = [p \in Procs |-> Resting]
    /\ wCount = 0

\* the caller is not inside save
Outside(p) == wProc[p].pc \in {"idle", "held", "done"}

\* o = Model(name=..., value=...), revision None
WriterConstruct(p, name, value) ==
    /\ Outside(p)
    /\ wTable' = wTable
    /\ wProc' = [wProc EXCEPT ![p] =
                    VersionedCall("held", [name |-> name, value |-> value, revision |-> None],
                                  None, None, "", FALSE, {}, {})]
    /\ UNCHANGED wCount
    /\ UNCHANGED <<codecVars, queryVars, storeVars, versionedVars, schemaVars, batchVars, sqlVars, compileVars, plannerVars, iterVars>>

\* o = Model.get(key); o.value = value
WriterGet(p, key, value) ==
    /\ Outside(p)
    /\ GetItem(wTable, StoreHashKey, key) # {}
    /\ wTable' = wTable
    /\ LET item == CHOOSE i \in GetItem(wTable, StoreHashKey, key) : TRUE
       IN  wProc' = [wProc EXCEPT ![p] =
                        VersionedCall("held", [name |-> item.name, value |-> value,
                                               revision |-> ParseUUID(item.revision)],
                                      None, None, "", FALSE, {}, {})]
    /\ UNCHANGED wCount
    /\ UNCHANGED <<codecVars, queryVars, storeVars, versionedVars, schemaVars, batchVars, sqlVars, compileVars, plannerVars, iterVars>>

\* o.save() up to its put_item: data, new_revision = uuid4() and the condition
WriterSaveBegin(p) ==
    /\ wProc[p].pc \in {"held", "done"}
    /\ wCount < MaxRev
    /\ wCount' = wCount + 1
    /\ wTable' = wTable
    /\ wProc' = [wProc EXCEPT ![p] =
                    VersionedCall("put", wProc[p].self, wProc[p].self.revision, UUID(wCount + 1),
                                  "", FALSE, {}, {})]
    /\ UNCHANGED <<codecVars, queryVars, storeVars, versionedVars, schemaVars, batchVars, sqlVars, compileVars, plannerVars, iterVars>>

\* the put_item of the call, and what save does with its answer
WriterSavePut(p) ==
    /\ wProc[p].pc = "put"
    /\ LET call == wProc[p]
           out == VersionedSave(wTable, call.self, call.new_revision)
       IN  /\ wTable' = out.table
           /\ wProc' = [wProc EXCEPT ![p] =
                            VersionedCall("done", out.self, call.token, call.new_revision, out.raised,
                                          \E q \in Procs \ {p} : wProc[q].pc = "put",
                                          GetItem(wTable, StoreHashKey, call.self.name),
                                          GetItem(out.table, StoreHashKey, call.self.name))]
    /\ UNCHANGED wCount
    /\ UNCHANGED <<codecVars, queryVars, storeVars, versionedVars, schemaVars, batchVars, sqlVars, compileVars, plannerVars, iterVars>>

NextVersionedWriters ==
    \/ \E p \in Procs, name \in StoreKeys, value \in VersionedValues : WriterConstruct(p, name, value)
    \/ \E p \in Procs, key \in StoreKeys, value \in VersionedValues : WriterGet(p, key, value)
    \/ \E p \in Procs : WriterSaveBegin(p)
    \/ \E p \in Procs : WriterSavePut(p)

(***************************************************************************)
(* IterableResult: the object query() returns.  iter(result) is the result *)
(* itself, so every for-loop over it calls the same __next__.              *)
(***************************************************************************)
MaxRecords == 2      \* len(self.records) is at most MaxRecords
MaxYield == 3        \* a loop is followed for MaxYield records

Loops == {"f", "g"}
RecordLists == UNION {[1..n -> 1..2] : n \in 0..MaxRecords}
NotLooping == [pc |-> "none", yielded |-> <<>>, snapshot |-> <<>>, alone |-> TRUE]
NoGot == [index |-> 0, member |-> 0]

IterIdle == iRecords = <<>> /\ iIndex = 0 /\ iLoops = <<>> /\ iGot = NoGot

\* IterableResult(cls, records)
InitIter ==
    /\ iRecords \in RecordLists
    /\ iIndex = 0
    /\ iLoops = [l \in Loops |-> NotLooping]
    /\ iGot = NoGot

\* __iter__: return self, the index as it stands
Iter(index) == index

(* __next__: the member at _current_index and the index after it, or       *)
(* StopIteration with the index back at 0.  A Python list is indexed from  *)
(* 0, the sequence from 1.                                                 *)
IterNext(records, index) ==
    IF index < Len(records) THEN [stop |-> FALSE, member |-> records[index + 1], index |-> index + 1]
    ELSE [stop |-> TRUE, member |-> 0, index |-> 0]

\* "for member in result:" begins
StartLoop(l) ==
    /\ iLoops[l].pc # "running"
    /\ iLoops' = [iLoops EXCEPT ![l] = [pc |-> "running", yielded |-> <<>>, snapshot |-> iRecords, alone |-> TRUE]]
    /\ iIndex' = Iter(iIndex)
    /\ UNCHANGED <<iRecords, iGot>>
    /\ UNCHANGED <<codecVars, queryVars, storeVars, versionedVars, schemaVars, batchVars, sqlVars, compileVars, plannerVars, writerVars>>

(* the loop asks for its next member, and ends on StopIteration; the other *)
(* loop, when it is under way, is no longer alone on the result            *)
StepLoop(l) ==
    /\ iLoops[l].pc = "running"
    /\ Len(iLoops[l].yielded) < MaxYield
    /\ LET n == IterNext(iRecords, iIndex)
       IN  /\ iIndex' = n.index
           /\ iLoops' = [k \in Loops |->
                            IF k = l
                            THEN IF n.stop THEN [iLoops[k] EXCEPT !.pc = "finished"]
                                 ELSE [iLoops[k] EXCEPT !.yielded = Append(@, n.member)]
                            ELSE IF iLoops[k].pc = "running" THEN [iLoops[k] EXCEPT !.alone = FALSE]
                            ELSE iLoops[k]]
    /\ UNCHANGED <<iRecords, iGot>>
    /\ UNCHANGED <<codecVars, queryVars, storeVars, versionedVars, schemaVars, batchVars, sqlVars, compileVars, plannerVars, writerVars>>

\* break: the loop is left before StopIteration
BreakLoop(l) ==
    /\ iLoops[l].pc = "running"
    /\ iLoops' = [iLoops EXCEPT ![l].pc = "abandoned"]
    /\ UNCHANGED <<iRecords, iIndex, iGot>>
    /\ UNCHANGED <<codecVars, queryVars, storeVars, versionedVars, schemaVars, batchVars, sqlVars, compileVars, plannerVars, writerVars>>

\* result[i], for an index of the list
GetMember(i) ==
    /\ i < Len(iRecords)
    /\ iGot' = [index |-> i + 1, member |-> iRecords[i + 1]]
    /\ iGot' # iGot
    /\ UNCHANGED <<iRecords, iIndex, iLoops>>
    /\ UNCHANGED <<codecVars, queryVars, storeVars, versionedVars, schemaVars, batchVars, sqlVars, compileVars, plannerVars, writerVars>>

NextIter ==
    \/ \E l \in Loops : StartLoop(l)
    \/ \E l \in Loops : StepLoop(l)
    \/ \E l \in Loops : BreakLoop(l)
    \/ \E i \in 0..(MaxRecords - 1) : GetMember(i)
(***************************************************************************)
(* The specifications.  Each drives its own variables and leaves the       *)
(* others at their idle values.                                            *)
(***************************************************************************)
InitSpecCodec == InitCodec /\ QueryIdle /\ StoreIdle /\ VersionedIdle /\ SchemaIdle /\ BatchIdle /\ SqlIdle /\ CompileIdle /\ PlannerIdle /\ WriterIdle /\ IterIdle
SpecCodec == InitSpecCodec /\ [][NextCodec]_vars

InitSpecCodecAny == InitCodecAny /\ QueryIdle /\ StoreIdle /\ VersionedIdle /\ SchemaIdle /\ BatchIdle /\ SqlIdle /\ CompileIdle /\ PlannerIdle /\ WriterIdle /\ IterIdle
SpecCodecAny == InitSpecCodecAny /\ [][NextCodecAny]_vars

InitSpecQuery == InitQuery /\ CodecIdle /\ StoreIdle /\ VersionedIdle /\ SchemaIdle /\ BatchIdle /\ SqlIdle /\ CompileIdle /\ PlannerIdle /\ WriterIdle /\ IterIdle
SpecQuery == InitSpecQuery /\ [][NextQuery]_vars

InitSpecStore == InitStore /\ CodecIdle /\ QueryIdle /\ VersionedIdle /\ SchemaIdle /\ BatchIdle /\ SqlIdle /\ CompileIdle /\ PlannerIdle /\ WriterIdle /\ IterIdle
SpecStore == InitSpecStore /\ [][NextStore]_vars

InitSpecVersioned == InitVersioned /\ CodecIdle /\ QueryIdle /\ StoreIdle /\ SchemaIdle /\ BatchIdle /\ SqlIdle /\ CompileIdle /\ PlannerIdle /\ WriterIdle /\ IterIdle
SpecVersioned == InitSpecVersioned /\ [][NextVersioned]_vars

InitSpecUpdate == InitUpdate /\ CodecIdle /\ QueryIdle /\ StoreIdle /\ SchemaIdle /\ BatchIdle /\ SqlIdle /\ CompileIdle /\ PlannerIdle /\ WriterIdle /\ IterIdle
SpecUpdate == InitSpecUpdate /\ [][NextUpdate]_vars

InitSpecSchema == InitSchema /\ CodecIdle /\ QueryIdle /\ StoreIdle /\ VersionedIdle /\ BatchIdle /\ SqlIdle /\ CompileIdle /\ PlannerIdle /\ WriterIdle /\ IterIdle
SpecSchema == InitSpecSchema /\ [][NextSchema]_vars

InitSpecBatch == InitBatch /\ CodecIdle /\ QueryIdle /\ StoreIdle /\ VersionedIdle /\ SchemaIdle /\ SqlIdle /\ CompileIdle /\ PlannerIdle /\ WriterIdle /\ IterIdle
SpecBatch == InitSpecBatch /\ [][NextBatch]_vars

InitSpecSql == InitSql /\ CodecIdle /\ QueryIdle /\ StoreIdle /\ VersionedIdle /\ SchemaIdle /\ BatchIdle /\ CompileIdle /\ PlannerIdle /\ WriterIdle /\ IterIdle
SpecSql == InitSpecSql /\ [][NextSql]_vars

InitSpecCompile == InitCompile /\ CodecIdle /\ QueryIdle /\ StoreIdle /\ VersionedIdle /\ SchemaIdle /\ BatchIdle /\ SqlIdle /\ PlannerIdle /\ WriterIdle /\ IterIdle
SpecCompile == InitSpecCompile /\ [][NextCompile]_vars

InitSpecCompileLit == InitCompileLit /\ CodecIdle /\ QueryIdle /\ StoreIdle /\ VersionedIdle /\ SchemaIdle /\ BatchIdle /\ SqlIdle /\ PlannerIdle /\ WriterIdle /\ IterIdle
SpecCompileLit == InitSpecCompileLit /\ [][NextCompileLit]_vars

InitSpecPlanner == InitPlanner /\ CodecIdle /\ QueryIdle /\ StoreIdle /\ VersionedIdle /\ SchemaIdle /\ BatchIdle /\ SqlIdle /\ CompileIdle /\ WriterIdle /\ IterIdle
SpecPlanner == InitSpecPlanner /\ [][NextPlanner]_vars

InitSpecSqliteWriters == InitSqliteWriters /\ CodecIdle /\ QueryIdle /\ StoreIdle /\ VersionedIdle /\ SchemaIdle /\ BatchIdle /\ SqlIdle /\ CompileIdle /\ PlannerIdle /\ IterIdle
SpecSqliteWriters == InitSpecSqliteWriters /\ [][NextSqliteWriters]_vars

InitSpecVersionedWriters == InitVersionedWriters /\ CodecIdle /\ QueryIdle /\ StoreIdle /\ VersionedIdle /\ SchemaIdle /\ BatchIdle /\ SqlIdle /\ CompileIdle /\ PlannerIdle /\ IterIdle
SpecVersionedWriters == InitSpecVersionedWriters /\ [][NextVersionedWriters]_vars

InitSpecIter == InitIter /\ CodecIdle /\ QueryIdle /\ StoreIdle /\ VersionedIdle /\ SchemaIdle /\ BatchIdle /\ SqlIdle /\ CompileIdle /\ PlannerIdle /\ WriterIdle
SpecIter == InitSpecIter /\ [][NextIter]_vars
(***************************************************************************)
(* Properties of save, get and delete (SpecStore).                         *)
(***************************************************************************)

(* C1: on a hash-key-only record type, get(k) returns the record most      *)
(* recently saved under k when no delete(k) followed that save, and raises *)
(* DoesNotExist when k was never saved or was deleted last.                *)
C1_GetReturnsLastSaved ==
    ret.op = "get" =>
        ret.result = IF saved[ret.key].op = "save" THEN saved[ret.key].record ELSE DoesNotExist

\* a get on the DynamoDB backend that returned a record saved over an earlier one's deletion
C1_Witness ==
    /\ backend = "dynamodb"
    /\ ret.op = "get"
    /\ saved[ret.key].op = "save"
    /\ ret.result = saved[ret.key].record
    /\ ret.result.enabled = PyBool(TRUE)
    /\ \E k \in StoreKeys : saved[k].op = "delete"

(* C2: save(record) returns true exactly when no record with that key was  *)
(* stored before the call and false when it overwrote a stored record, on  *)
(* every backend.                                                          *)
C2_SaveReturnsCreated ==
    ret.op = "save" => ret.result = PyBool(~ret.existed)

(***************************************************************************)
(* Properties of VersionedBaseModel.save (SpecVersioned).                  *)
(***************************************************************************)
LastSave == vlog[Len(vlog)]
\* the token of a save is the revision of the item stored under its key
TokenIsCurrent(e) == \E item \in e.before : item.revision = StrUUID(e.token)

(* C3: a versioned save whose revision token differs from the stored       *)
(* revision fails with RevisionMismatch('Provided revision is out of       *)
(* date') and leaves the stored item unchanged; with the token equal to    *)
(* the stored revision it succeeds, and the stored revision and the        *)
(* object's revision are then a fresh value different from the token.      *)
C3_RevisionTokenChecked ==
    (vlog # <<>> /\ IsUUID(LastSave.token)) =>
        IF TokenIsCurrent(LastSave)
        THEN /\ LastSave.raised = ""
             /\ LastSave.after = {[name |-> LastSave.name, value |-> LastSave.value,
                                   revision |-> StrUUID(LastSave.new_revision)]}
             /\ LastSave.self_revision = LastSave.new_revision
             /\ LastSave.new_revision # LastSave.token
             /\ \A item \in LastSave.before : item.revision # StrUUID(LastSave.new_revision)
        ELSE /\ LastSave.raised = OutOfDateMsg
             /\ LastSave.after = LastSave.before

\* a save with the current token went through and the next save, with that token again, failed
C3_Witness ==
    /\ Len(vlog) = 2
    /\ IsUUID(vlog[1].token) /\ TokenIsCurrent(vlog[1]) /\ vlog[1].raised = ""
    /\ vlog[2].token = vlog[1].token /\ vlog[2].name = vlog[1].name
    /\ vlog[2].raised = OutOfDateMsg
    /\ vlog[2].before # {} /\ vlog[2].after = vlog[2].before

(* C4: two versioned saves of the same record with revision None on both   *)
(* calls, the key absent at first: the first creates the item and returns  *)
(* true; the second fails with RevisionMismatch('Must provide a            *)
(* revision') and the stored item stays as the first call wrote it.        *)
C4_SecondCreateRejected ==
    (/\ Len(vlog) = 2
     /\ vlog[1].token = None /\ vlog[2].token = None
     /\ vlog[1].name = vlog[2].name /\ vlog[1].value = vlog[2].value
     /\ vlog[1].before = {}) =>
        /\ vlog[1].raised = ""
        /\ vlog[1].result = PyBool(TRUE)
        /\ vlog[1].after = {[name |-> vlog[1].name, value |-> vlog[1].value,
                             revision |-> StrUUID(vlog[1].new_revision)]}
        /\ vlog[2].raised = MustProvideMsg
        /\ vlog[2].result = None
        /\ vlog[2].after = vlog[1].after

C4_Witness ==
    /\ Len(vlog) = 2
    /\ vlog[1].token = None /\ vlog[2].token = None
    /\ vlog[1].name = vlog[2].name /\ vlog[1].value = vlog[2].value
    /\ vlog[1].before = {}
    /\ vlog[1].result = PyBool(TRUE)
    /\ vlog[2].raised = MustProvideMsg
    /\ vtable = vlog[1].after

(***************************************************************************)
(* Properties of Backend.query (SpecQuery).  They are stated over the      *)
(* caller's expressions as written, not over their compiled form.          *)
(***************************************************************************)
RECURSIVE SymbolsOf(_)
SymbolsOf(expr) ==
    CASE expr.kind = "symbol" -> {expr.name}
      [] expr.kind \in {"comparison", "logic"} -> SymbolsOf(expr.left) \cup SymbolsOf(expr.right)
      [] expr.kind = "contains" -> SymbolsOf(expr.container) \cup SymbolsOf(expr.member)
      [] OTHER -> {}

Asked == qArgs.kind = "args"
HasQueryExpr == Asked /\ qArgs.query_expr # NoExpr
\* the key attributes the query expression refers to
UsedKeys == SymbolsOf(qArgs.query_expr) \cap PossibleKeys(qCfg)
\* both expressions were turned into conditions
Compiled == ~(qRes.kind = "raise" /\ qRes.at = "compile")
\* the key tuples of the primary key and of the indexes
KeyTuples == {PrimaryKey(qCfg)} \cup {Indexes(qCfg)[i][2] : i \in 1..Len(Indexes(qCfg))}

(* C5: with hash key h, no range key and one global index G over g, a      *)
(* query expression whose key attributes are exactly {h} is issued with no *)
(* IndexName, and one whose key attributes are exactly {g} is issued with  *)
(* IndexName = G.                                                          *)
C5_IndexByKeysUsed ==
    (/\ qCfg.range_key = "" /\ qCfg.local_indexes = <<>> /\ Len(qCfg.global_indexes) = 1
     /\ Len(qCfg.global_indexes[1][2]) = 1
     /\ HasQueryExpr /\ Compiled) =>
        /\ UsedKeys = {qCfg.hash_key} => qCall.op = "query" /\ qCall.params.IndexName = PRIMARY
        /\ UsedKeys = {qCfg.global_indexes[1][2][1]} =>
                qCall.op = "query" /\ qCall.params.IndexName = qCfg.global_indexes[1][1]

\* a query on id alone went to by-id and returned records
C5_Witness ==
    /\ qCfg = SimpleKeyModel /\ HasQueryExpr
    /\ UsedKeys = {"id"}
    /\ qCall.op = "query" /\ qCall.params.IndexName = "by-id"
    /\ qRes.kind = "result" /\ Len(qRes.records) > 0

(* C6: a query expression that refers to no key attribute, given with no   *)
(* filter expression, raises ConditionCheckFailed and issues neither a     *)
(* query nor a scan.                                                       *)
C6_NoKeysNoScan ==
    (HasQueryExpr /\ UsedKeys = {} /\ qArgs.filter_expr = NoExpr) =>
        /\ qRes = Raises("ConditionCheckFailed", NoKeysInQueryMsg, "query")
        /\ qCall = NoCall

C6_Witness ==
    /\ HasQueryExpr /\ UsedKeys = {} /\ qArgs.filter_expr = NoExpr
    /\ SymbolsOf(qArgs.query_expr) # {}
    /\ qRes.kind = "raise" /\ qRes.exc = "ConditionCheckFailed"
    /\ qCall = NoCall

(* C7: when the key attributes used contain no key tuple of the primary    *)
(* key or of an index and are not a subset of {hash key, range key}, the   *)
(* query raises ConditionCheckFailed('No keys in expression. Enable scan   *)
(* or add an index.') before any backend call.                             *)
C7_NoUsableIndex ==
    (/\ HasQueryExpr /\ Compiled
     /\ \A t \in KeyTuples : ~(Range(t) \subseteq UsedKeys)
     /\ ~(UsedKeys \subseteq {qCfg.hash_key, qCfg.range_key})) =>
        /\ qRes = Raises("ConditionCheckFailed", NoKeysMsg, "query")
        /\ qCall = NoCall

\* the range attribute of a local index, used without the hash key
C7_Witness ==
    /\ qCfg = ComplexKeyModel /\ HasQueryExpr
    /\ UsedKeys = {"category_id"}
    /\ qRes = Raises("ConditionCheckFailed", NoKeysMsg, "query")
    /\ qCall = NoCall

\* expr joins an equality of key attribute k to a number with a comparison of attribute x
EqOn(e, k) == e.kind = "comparison" /\ e.type = "eq" /\ e.left = Symbol(k) /\ e.right.kind = "float"
CmpOn(e, x) == e.kind = "comparison" /\ e.left = Symbol(x)
KeyWithNonKey(expr, k, x) ==
    /\ expr.kind = "logic"
    /\ \/ EqOn(expr.left, k) /\ CmpOn(expr.right, x)
       \/ EqOn(expr.right, k) /\ CmpOn(expr.left, x)

RejectedAsNonKey(k) ==
    /\ qCall.op = "query"
    /\ qCall.params.IndexName = (IF <<k>> \in KeyTuples THEN IndexMap(qCfg, <<k>>) ELSE PRIMARY)
    /\ qRes = Raises("ConditionCheckFailed", NonKeyMsg, "table.query")

(* C8 as stated: an equality on any indexed key attribute joined with a    *)
(* comparison on a non-key attribute, without a filter expression, is      *)
(* planned on the index of the key attribute and rejected with             *)
(* ConditionCheckFailed('Non-key attributes are not valid in the query     *)
(* expression. Use filter expression').                                    *)
C8_AnyKeyAttribute ==
    \A k \in PossibleKeys(qCfg), x \in qCfg.fields \ PossibleKeys(qCfg) :
        (HasQueryExpr /\ qArgs.filter_expr = NoExpr /\ KeyWithNonKey(qArgs.query_expr, k, x)) =>
            RejectedAsNonKey(k)

(* C8: the same, for a key attribute that is the hash key or the range key *)
(* of the table or that alone is the key of an index: the query is issued  *)
(* on that index (on the primary key for a key of the table) and rejected  *)
(* with the non-key message, so no records are returned.                   *)
C8_NonKeyInKeyCondition ==
    \A k \in PossibleKeys(qCfg), x \in qCfg.fields \ PossibleKeys(qCfg) :
        (/\ HasQueryExpr /\ qArgs.filter_expr = NoExpr /\ KeyWithNonKey(qArgs.query_expr, k, x)
         /\ (<<k>> \in KeyTuples \/ k \in {qCfg.hash_key, qCfg.range_key})) =>
            RejectedAsNonKey(k)

C8_Witness ==
    /\ qCfg = SimpleKeyModel /\ HasQueryExpr /\ qArgs.filter_expr = NoExpr
    /\ KeyWithNonKey(qArgs.query_expr, "id", "timestamp")
    /\ qCall.op = "query" /\ qCall.params.IndexName = "by-id"
    /\ qRes = Raises("ConditionCheckFailed", NonKeyMsg, "table.query")

(***************************************************************************)
(* Pagination (SpecQuery).  The records a query is to return are found by  *)
(* evaluating the caller's expressions on every item of the table.         *)
(***************************************************************************)
RECURSIVE ExprHolds(_, _)
ExprHolds(expr, item) ==
    CASE expr.kind = "none" -> TRUE
      [] expr.kind = "logic" ->
            IF expr.type = "and" THEN ExprHolds(expr.left, item) /\ ExprHolds(expr.right, item)
            ELSE ExprHolds(expr.left, item) \/ ExprHolds(expr.right, item)
      [] expr.kind = "comparison" ->
            IF expr.right.kind = "null" THEN expr.type = "ne"
            ELSE LET a == Tenths(item[expr.left.name])
                     b == expr.right.value
                 IN  CASE expr.type = "eq" -> a = b
                       [] expr.type = "ne" -> a # b
                       [] expr.type = "lt" -> a < b
                       [] expr.type = "le" -> a <= b
                       [] expr.type = "gt" -> a > b
                       [] expr.type = "ge" -> a >= b
      [] OTHER -> FALSE

Matching ==
    {item \in TableOf(qCfg) :
        ExprHolds(qArgs.query_expr, item) /\ ExprHolds(qArgs.filter_expr, item)}

\* a may come before b in the requested order of the index the query ran on
InOrder(a, b) ==
    LET schema == KeySchema(qCfg, qCall.params.IndexName)
    IN  Len(schema) = 2 =>
            IF qArgs.order = "asc" THEN Tenths(a[schema[2]]) <= Tenths(b[schema[2]])
            ELSE Tenths(a[schema[2]]) >= Tenths(b[schema[2]])

Min(a, b) == IF a < b THEN a ELSE b

(* The pages obtained so far are the first matching records in the         *)
(* requested order, each once; a page under limit n holds n of them or all *)
(* that remained; and a last_evaluated_key comes with every page that does *)
(* not complete the result.                                                *)
PagesFaithful ==
    LET m == Cardinality(Matching)
        n == qArgs.limit
        earlier == Len(qPages) - Len(qRes.records)
    IN  /\ \A i, j \in 1..Len(qPages) : i < j => qPages[i] # qPages[j] /\ InOrder(qPages[i], qPages[j])
        /\ \A i \in 1..Len(qPages) : qPages[i] \in Matching
        /\ \A item \in Matching \ Range(qPages) : \A i \in 1..Len(qPages) : InOrder(qPages[i], item)
        /\ Len(qRes.records) = (IF n > 0 THEN Min(n, m - earlier) ELSE m)
        /\ Len(qPages) < m => qRes.last_evaluated_key # NoKey
        /\ qRes.last_evaluated_key = NoKey => Range(qPages) = Matching

(* C9 as stated: for any query with limit n over m > n matching records,   *)
(* the first page holds exactly the first n matching records in the        *)
(* requested order and a last_evaluated_key, and the pages obtained by     *)
(* passing the key on hold every matching record exactly once.             *)
C9_PagesOfAnyQuery ==
    (HasQueryExpr /\ qRes.kind = "result") => PagesFaithful

(* C9: the same for a query without a filter expression.  With a filter    *)
(* expression the Limit counts the items read before the filter is         *)
(* applied, and a page may hold fewer than n of the matching records.      *)
C9_PagesOfUnfilteredQuery ==
    (HasQueryExpr /\ qArgs.filter_expr = NoExpr /\ qRes.kind = "result") => PagesFaithful

\* three matching records fetched in descending order in pages of two
C9_Witness ==
    /\ HasQueryExpr /\ qArgs.filter_expr = NoExpr /\ qRes.kind = "result"
    /\ qArgs.limit = 2 /\ qArgs.order = "desc"
    /\ Cardinality(Matching) = 3
    /\ qCall.params.ExclusiveStartKey # NoKey
    /\ Len(qPages) = 3 /\ Range(qPages) = Matching
    /\ qRes.last_evaluated_key = NoKey

(***************************************************************************)
(* The record codec (SpecCodec).                                           *)
(***************************************************************************)
RoundTripDone == cDe # NotRun

(* C10 as stated: for every declared field type and every value v of it,   *)
(* _deserialize_field(name, _serialize_field(name, v)) equals v.           *)
C10_RoundTripEveryType ==
    RoundTripDone => PyEq(cDe, cValue)

\* a dict as JSON gives it back: a key that is not a str has become its text
WithTextKeys(d) == PyDict({<<IF kv[1].t = "str" THEN kv[1] ELSE Str(kv[1]), kv[2]>> : kv \in d.items})

(* C10: the round trip gives back v for an integer, float, string, boolean *)
(* and array field and for an object whose keys are strings.  A Decimal    *)
(* comes back as the float of the same decimal text, a datetime as its     *)
(* ISO 8601 text, the datetime of the TTL field as the Decimal of its      *)
(* seconds since the epoch, and an object's other keys as their text.      *)
C10_RoundTripByType ==
    RoundTripDone =>
        CASE cField \in {"id", "total", "name", "enabled", "items"} -> PyEq(cDe, cValue)
          [] cField = "data" ->
                IF cValue.t = "dict" THEN cDe = WithTextKeys(cValue) ELSE cDe = cValue
          [] cField = "sigfig" -> cDe.t = "float" /\ Tenths(cDe) = Tenths(cValue)
          [] cField = "timestamp" -> cDe = PyStr(IsoFormat(cValue))
          [] cField = "expires" ->
                /\ cDe.t = "Decimal"
                /\ Tenths(cDe) = 10 * (IF cValue.aware THEN cValue.wall - cValue.off ELSE cValue.wall)

\* an array of a zero and a negative number went through the round trip
C10_Witness ==
    /\ RoundTripDone
    /\ cField = "items"
    /\ cValue = PyList(<<PyInt(0), PyInt(-1)>>)
    /\ cSer.t = "str"
    /\ cDe = cValue

(***************************************************************************)
(* The time-to-live field.                                                 *)
(***************************************************************************)
\* seconds from the Unix epoch to a datetime: an aware value is measured as
\* an instant against the UTC epoch, a naive value by its reading against
\* the naive epoch
SecondsSinceEpoch(d) == IF d.aware THEN d.wall - d.off ELSE d.wall

SerializedTtl == cField = ttl_field /\ cSer # NotRun

(* C11: whatever type the schema declares for it, the time-to-live field   *)
(* of a record is serialized as the number of seconds since the Unix       *)
(* epoch, an aware datetime measured against the UTC epoch and a naive one *)
(* against the naive epoch; aware datetimes that denote the same instant   *)
(* in different zones are serialized to the same number.                   *)
C11_TtlIsEpochSeconds ==
    SerializedTtl =>
        /\ cSer = PyDecimal(10 * SecondsSinceEpoch(cValue))
        /\ \A d \in Datetimes :
              (d.aware /\ cValue.aware /\ SecondsSinceEpoch(d) = SecondsSinceEpoch(cValue))
                  => SerializeField(cField, d, cOrder) = cSer

\* an aware datetime east of UTC was serialized, and the same instant read in UTC is another value
C11_Witness ==
    /\ SerializedTtl
    /\ cValue.aware /\ cValue.off = 1
    /\ \E d \in Datetimes : d.aware /\ d.off = 0 /\ SecondsSinceEpoch(d) = SecondsSinceEpoch(cValue)
    /\ cSer = PyDecimal(0)

(***************************************************************************)
(* initialize()                                                            *)
(***************************************************************************)
InitializedExisting == sRet.op = "initialize" /\ sRet.before.exists

(* C12: initialize() is idempotent on every backend: called when the table *)
(* already exists it completes without error, leaves the table's           *)
(* definition and its stored records as they were, and exists() is true    *)
(* after it.                                                               *)
C12_InitializeIdempotent ==
    InitializedExisting =>
        /\ ~IsRaise(sRet.result)
        /\ sDb = sRet.before
        /\ BackendExists(sBackend, sDb)

(***************************************************************************)
(* batch_save                                                              *)
(***************************************************************************)
\* the calls whose put requests hold the serialized record
CallsHolding(record) ==
    {k \in DOMAIN bCalls :
        \E j \in DOMAIN bCalls[k] : bCalls[k][j].PutRequest.Item = SerializeRecord(record)}

(* C13: batch_save hands the records to the backend in batch-write calls   *)
(* of at most 25 items each: no call carries more than 25 put requests,    *)
(* and every record appears in exactly one call.                           *)
C13_BatchesOfAtMost25 ==
    bRet # NotRun =>
        /\ \A k \in DOMAIN bCalls : Len(bCalls[k]) <= 25
        /\ \A i \in DOMAIN bItems : Cardinality(CallsHolding(bItems[i])) = 1

(***************************************************************************)
(* The SQLite backend's expression compiler.                               *)
(***************************************************************************)
SqlCompiled == sqlOut # NotRun
\* a declared field whose type SQLite stores natively
DeclaredNative(name) ==
    name \in DOMAIN Columns /\ Columns[name] \in {"int", "float", "bool", "str", "datetime"}

RangeOp(type) ==
    CASE type = "lt" -> "<" [] type = "gt" -> ">" [] type = "le" -> "<=" [] type = "ge" -> ">="

\* a range comparison between a declared native field and a literal that is not null
RangeComparison ==
    /\ sqlExpr.kind = "comparison" /\ sqlExpr.type \in {"lt", "gt", "le", "ge"}
    /\ sqlExpr.left.kind = "symbol" /\ DeclaredNative(sqlExpr.left.name)
    /\ sqlExpr.right.kind \in {"float", "string"}

\* the parameter is the literal's value
BindsLiteral(param, literal) ==
    IF literal.kind = "string" THEN param = PyStr(literal.text)
    ELSE param.t \in {"int", "float"} /\ Tenths(param) = literal.value

(* C15: for each of <, >, <=, >= between a native field and a literal the  *)
(* compiler emits 'field <op> ?' with that operator and the literal as the *)
(* single bound parameter; none of the four raises.                        *)
C15_RangeComparisons ==
    (SqlCompiled /\ RangeComparison) =>
        /\ ~IsRaise(sqlOut)
        /\ sqlOut.text = <<sqlExpr.left.name, " ", RangeOp(sqlExpr.type), " ", "?">>
        /\ Len(sqlOut.params) = 1
        /\ BindsLiteral(sqlOut.params[1], sqlExpr.right)

\* the number of "?" placeholders of an SQL text
Placeholders(text) == Cardinality({i \in DOMAIN text : text[i] = "?"})

(* C16: a Logic node is emitted as '(leftSql AND|OR rightSql)' with the    *)
(* parameters of the left operand followed by those of the right, in the   *)
(* order of the '?' placeholders; the number of '?' in the SQL equals the  *)
(* number of parameters.                                                   *)
C16_LogicAndParams ==
    (SqlCompiled /\ ~IsRaise(sqlOut)) =>
        /\ sqlExpr.kind = "logic" =>
              LET left == RuleToSqliteExpression(sqlExpr.left)
                  right == RuleToSqliteExpression(sqlExpr.right)
              IN  /\ sqlOut.text = <<"(">> \o left.text
                                       \o <<" ", IF sqlExpr.type = "and" THEN "AND" ELSE "OR", " ">>
                                       \o right.text \o <<")">>
                  /\ sqlOut.params = left.params \o right.params
        /\ Placeholders(sqlOut.text) = Len(sqlOut.params)

(***************************************************************************)
(* The DynamoDB backend's expression compiler.                             *)
(***************************************************************************)
BotoCompiled == kOut # NotRun
\* an equality or inequality comparison of a symbol with null or with a number
SymbolEqNe ==
    /\ kExpr.kind = "comparison" /\ kExpr.type \in {"eq", "ne"}
    /\ kExpr.left.kind = "symbol" /\ kExpr.right.kind \in {"null", "float"}
\* the value a number literal stands for
NumberOf(literal) ==
    Value(IF literal.value % 10 = 0 THEN PyInt(literal.value \div 10) ELSE PyFloat(literal.value))
\* the condition the comparison stands for, on a reference to the symbol
ConditionOn(ref) ==
    CASE kExpr.type = "eq" /\ kExpr.right.kind = "null" -> Cond1("AttributeNotExists", ref)
      [] kExpr.type = "ne" /\ kExpr.right.kind = "null" -> Cond1("AttributeExists", ref)
      [] kExpr.type = "eq" /\ kExpr.right.kind = "float" -> Cond("Eq", ref, NumberOf(kExpr.right))
      [] kExpr.type = "ne" /\ kExpr.right.kind = "float" -> Cond("Ne", ref, NumberOf(kExpr.right))

RECURSIVE KeyRefsOf(_)
KeyRefsOf(cond) ==
    CASE cond.c = "Key" -> {cond.name}
      [] cond.c \in {"Attr", "Value"} -> {}
      [] cond.c \in {"AttributeExists", "AttributeNotExists"} -> KeyRefsOf(cond.l)
      [] OTHER -> KeyRefsOf(cond.l) \cup KeyRefsOf(cond.r)

BotoReturned == BotoCompiled /\ kOut.val.c # "Raise"

(* C20: the used-key set the compiler returns is the set of the symbol     *)
(* names of the expression that are among the known key names K; a symbol  *)
(* outside K compiles to an attribute reference and adds nothing, so with  *)
(* K empty, as for a filter expression, the used-key set is empty and the  *)
(* condition holds no key reference, even when it names the hash key.      *)
C20_UsedKeysAreKeySymbols ==
    BotoReturned =>
        /\ kOut.keys = SymbolsOf(kExpr) \cap kKeys
        /\ KeyRefsOf(kOut.val) = SymbolsOf(kExpr) \cap kKeys
        /\ AttrsOf(kOut.val) = SymbolsOf(kExpr) \ kKeys
        /\ kKeys = {} => kOut.keys = {} /\ KeyRefsOf(kOut.val) = {}

\* with K = {name}, name == 1 and id == 1 was compiled: name is the one key used
C20_Witness ==
    /\ BotoReturned
    /\ kExpr.kind = "logic" /\ SymbolsOf(kExpr) = {"name", "id"} /\ kKeys = {"name"}
    /\ kOut.keys = {"name"}
    /\ AttrsOf(kOut.val) = {"id"}

(***************************************************************************)
(* The index planner.                                                      *)
(***************************************************************************)
Planned == pOut.run
\* the key tuples of index_map that are subsets of the keys used
Candidates == {k \in Range(IndexMapKeys(pCfg)) : Range(k) \subseteq pKeys}
\* the score the planner is to give a candidate: 3 for an exact match, 2 for a proper subset
Score(k) == IF Range(k) = pKeys THEN 3 ELSE 2

(* C18: when more than one key tuple is a subset of the keys used, the     *)
(* index returned is one of the highest score, an exact match (3) before a *)
(* proper subset (2); the same input always gives the same index.          *)
C18_HighestScoreChosen ==
    (Planned /\ Cardinality(Candidates) > 1) =>
        /\ ~pOut.raised
        /\ \E k \in Candidates :
              /\ pOut.name = IndexMap(pCfg, k)
              /\ \A other \in Candidates : Score(other) <= Score(k)

(* C19: a key tuple that is a proper subset of the keys used is scored 2   *)
(* and the selection completes with one of the candidates; the failure at  *)
(* the end of score_index is not reached for a tuple that passed the       *)
(* subset filter.                                                          *)
C19_ProperSubsetScored ==
    (Planned /\ \E k \in Candidates : Range(k) # pKeys) =>
        /\ ~pOut.raised
        /\ \E k \in Candidates : pOut.name = IndexMap(pCfg, k)


(***************************************************************************)
(* Properties of build_update_condition_with_revision and update_value     *)
(* (SpecUpdate).                                                           *)
(***************************************************************************)
LastCall == vlog[1]

\* the condition has, under And only, a comparison of the named kind on the named attribute
RECURSIVE Requires(_, _, _, _)
Requires(cond, kind, name, operand) ==
    IF ~IsCondition(cond) THEN FALSE
    ELSE IF cond.c = "And" THEN Requires(cond.l, kind, name, operand) \/ Requires(cond.r, kind, name, operand)
    ELSE IF cond.c \in {"AttributeExists", "AttributeNotExists"} THEN cond.c = kind /\ cond.l.name = name
    ELSE cond.c = kind /\ cond.l.name = name /\ cond.r = Value(operand)

(* C21: whenever a revision token is supplied or creation is allowed, the  *)
(* condition built by build_update_condition_with_revision requires the    *)
(* hash-key attribute to equal the given key value, together with the      *)
(* revision requirement (revision equal to the token, or no revision       *)
(* attribute when the item is to be created).                              *)
C21_HashKeyAlwaysRequired ==
    (vlog # <<>> /\ (IsUUID(LastCall.token) \/ LastCall.allow_create)) =>
        /\ Requires(LastCall.condition, "Eq", StoreHashKey, LastCall.key)
        /\ IF IsUUID(LastCall.token)
           THEN Requires(LastCall.condition, "Eq", "revision", StrUUID(LastCall.token))
           ELSE Requires(LastCall.condition, "AttributeNotExists", "revision", None)

\* the last call was update_value with a UUID token for a stored item whose revision is another
StaleUpdate ==
    /\ vlog # <<>> /\ LastCall.op = "update_value"
    /\ IsUUID(LastCall.token) /\ LastCall.before # {} /\ ~TokenIsCurrent(LastCall)

(* C22: with a revision token supplied, the condition used by update_value *)
(* requires the stored revision to equal the token for every field and     *)
(* value passed, and an update_value call carrying a stale token leaves    *)
(* the stored item and its revision as they were.                          *)
C22_StaleUpdateRejected ==
    /\ (vlog # <<>> /\ LastCall.op = "update_value" /\ IsUUID(LastCall.token)) =>
            Requires(LastCall.condition, "Eq", "revision", StrUUID(LastCall.token))
    /\ StaleUpdate => LastCall.after = LastCall.before

\* the last call was an update_value whose update_item the backend rejected
RejectedUpdate == vlog # <<>> /\ LastCall.op = "update_value" /\ LastCall.rejected
\* the item stored under the key holds the requested value in the field
StoredFieldEquals == \E item \in LastCall.before : item[LastCall.field] = LastCall.value
MismatchMsg == IF LastCall.token # None THEN OutOfDateMsg ELSE MustProvideMsg

NoConverter(field_name, keys) ==
    \A t \in GetTypePossibilities(field_name) : TypeSignature(t) \notin keys /\ t[1] \notin keys
\* a value that is not a datetime in a date-time field or in the TTL field
NotADatetime ==
    /\ cValue.t \notin {"datetime", "None"}
    /\ \/ cField = ttl_field
       \/ GetTypePossibilities(cField) = {<<"string", "date-time">>}

(* C23: _serialize_field and _deserialize_field never raise, and a value   *)
(* whose field has no mapped converter, or that does not fit the converter *)
(* of a date-time or TTL field, is returned unchanged.                     *)
C23_FieldCodecNeverRaises ==
    /\ cSer # NotRun =>
            /\ ~IsRaise(cSer)
            /\ (NotADatetime \/ (cField # ttl_field /\ NoConverter(cField, SerializeKeys))) => cSer = cValue
    /\ cDe # NotRun =>
            /\ ~IsRaise(cDe)
            /\ NoConverter(cField, DeserializeKeys) => cDe = cValue

(***************************************************************************)
(* Properties of the DynamoDB compiler on literals (SpecCompileLit).       *)
(***************************************************************************)
LitCompiled == kOut # NotRun
\* what the left operand of kExpr compiles to
LitReference == IF kExpr.left.name \in kKeys THEN Key(kExpr.left.name) ELSE Attr(kExpr.left.name)
\* the comparison of the field of kExpr with the operand v
LitComparison(v) == CallMethod(LitReference, MethodName(kExpr.type), Value(v))

(* C24: a comparison whose right operand is a boolean literal compiles     *)
(* without raising, to the comparison predicate with the boolean value as  *)
(* the operand.                                                            *)
C24_BooleanLiteralCompiles ==
    (LitCompiled /\ kExpr.right.kind = "boolean" /\ IsCondition(LitComparison(PyBool(kExpr.right.b)))) =>
        kOut.val = LitComparison(PyBool(kExpr.right.b))

(* C25: a datetime literal is converted to a Unix-epoch number only when   *)
(* it is compared against the TTL field; compared against any other field  *)
(* the datetime is the operand as it is.                                   *)
C25_EpochOnlyForTtlField ==
    (LitCompiled /\ kExpr.right.kind = "datetime" /\ kOut.val.c # "Raise") =>
        kOut.val.r = IF kExpr.left.name = ttl_field THEN Value(ToEpochDecimal(kExpr.right.dt))
                     ELSE Value(kExpr.right.dt)

(***************************************************************************)
(* Properties of the SQLite backend's save under two callers               *)
(* (SpecSqliteWriters).                                                    *)
(***************************************************************************)
CallKey(call) == call.item[StoreHashKey]
Finished(p) == wProc[p].pc = "done"
\* the rows of a table under other keys than the given one
OtherRows(tbl, key) == {row \in tbl : row[1] # key}
HoldsKey(tbl, key) == \E row \in tbl : row[1] = key

SelectedBy(call) == {row \in call.before : WhereHolds(RuleToSqliteExpression(call.condition), row)}
\* the call is a save with a condition that found its key stored and went on to the UPDATE
ConditionalUpdate(p) ==
    /\ Finished(p) /\ wProc[p].path = "update" /\ wProc[p].condition # NoExpr
    /\ wProc[p].raised \in {"", "IntegrityError"}
\* the row stored under the key of the call satisfies its condition
KeyRowSelected(p) == \E row \in SelectedBy(wProc[p]) : row[1] = CallKey(wProc[p])

(* C28: a save with a condition, for an item whose key is stored and whose *)
(* stored row matches the condition, leaves every row under another key as *)
(* it was, the rows that satisfy the condition too; the row of the key     *)
(* becomes the item's, or stays when the statement is rejected.            *)
C28_OnlyTheKeyRowWritten ==
    \A p \in Procs :
        ConditionalUpdate(p) =>
            /\ OtherRows(wProc[p].after, CallKey(wProc[p])) = OtherRows(wProc[p].before, CallKey(wProc[p]))
            /\ KeyRowSelected(p) =>
                    \/ wProc[p].raised = "" /\ RowOf(wProc[p].item) \in wProc[p].after
                    \/ wProc[p].raised = "IntegrityError" /\ wProc[p].after = wProc[p].before

\* the condition holds of the key's row and of a row under another key, and the call has written
C28_Witness ==
    /\ ConditionalUpdate("p") /\ KeyRowSelected("p")
    /\ \E row \in SelectedBy(wProc["p"]) : row[1] # CallKey(wProc["p"])
    /\ wProc["p"].item.id # PyInt(1)

(***************************************************************************)
(* Properties of VersionedBaseModel.save under two callers                 *)
(* (SpecVersionedWriters).                                                 *)
(***************************************************************************)
\* the item a successful save of the call stores
WrittenBy(call) ==
    [name |-> call.self.name, value |-> call.self.value, revision |-> StrUUID(call.new_revision)]
\* both callers have finished a save of the same key with the same UUID token
SameTokenSaves(p, q) ==
    /\ p # q /\ Finished(p) /\ Finished(q)
    /\ wProc[p].self.name = wProc[q].self.name
    /\ IsUUID(wProc[p].token) /\ wProc[p].token = wProc[q].token

(* C27: of two versioned saves of one key that carry the same stored       *)
(* revision token at most one succeeds, in any interleaving; the other     *)
(* fails with RevisionMismatch('Provided revision is out of date'), and    *)
(* the stored item is then exactly the one the successful call wrote.      *)
C27_OneWriterWins ==
    \A p, q \in Procs :
        SameTokenSaves(p, q) =>
            /\ ~(wProc[p].raised = "" /\ wProc[q].raised = "")
            /\ wProc[p].raised = "" =>
                    /\ wProc[q].raised = OutOfDateMsg
                    /\ wProc[q].after = wProc[q].before
                    /\ wProc[p].after = {WrittenBy(wProc[p])}
                    /\ GetItem(wTable, StoreHashKey, wProc[p].self.name) = {WrittenBy(wProc[p])}
            /\ wProc[p].raised \in {"", OutOfDateMsg}

\* both calls were under way with the stored token; p's put_item came first and won
C27_Witness ==
    /\ SameTokenSaves("p", "q")
    /\ wProc["p"].overlap /\ wProc["p"].raised = ""
    /\ \E item \in wProc["p"].before : item.revision = StrUUID(wProc["p"].token)
    /\ wProc["q"].raised = OutOfDateMsg
    /\ wProc["p"].self.value # wProc["q"].self.value
    /\ wTable = {WrittenBy(wProc["p"])}

(***************************************************************************)
(* Properties of IterableResult (SpecIter).                                *)
(***************************************************************************)
(* C30: whatever iterations came before, abandoned or interleaved, a       *)
(* for-loop over the result that was begun after them and has run to its   *)
(* end has yielded every record exactly once in stored order; indexing     *)
(* gives the member at the index, and the record list is as it was when    *)
(* the loop began.                                                         *)
C30_LoopYieldsEveryRecord ==
    /\ \A l \in Loops : (iLoops[l].pc = "finished" /\ iLoops[l].alone) => iLoops[l].yielded = iRecords
    /\ \A l \in Loops : iLoops[l].pc # "none" => iLoops[l].snapshot = iRecords
    /\ iGot # NoGot => iGot.member = iRecords[iGot.index]
=============================================================================
